---- MODULE Spec2Model ----
(***************************************************************************)
(* The aws-sigv4-proxy request pipeline as a state machine.                *)
(*                                                                         *)
(* Every inbound request is served by its own task (net/http runs one      *)
(* goroutine per request).  A task walks through Handler.ServeHTTP, which  *)
(* calls ProxyClient.Do (admission, body read, service resolution,         *)
(* signing, header policy, transport) and then relays the result to the    *)
(* client.  The tasks share one ProxyClient: its configuration, its        *)
(* RateLimiter and its v4.Signer.                                          *)
(*                                                                         *)
(* Pointers and errors are options: <<>> is nil, <<x>> is a value.         *)
(* Byte strings and header values are strings.                             *)
(***************************************************************************)
EXTENDS Integers, Sequences, FiniteSets, TLC

\* ------------------------------------------------------------- bounds
\* Number of tasks that serve requests concurrently in SpecConc.
NumTasks == 2
\* Largest burst capacity a RateLimiter is constructed with.
MaxBurst == 2

Tasks == 1..NumTasks

\* ------------------------------------------------------------- options
Nil == <<>>
Some(x) == <<x>>
IsNil(o) == o = <<>>
Val(o) == o[1]

\* ------------------------------------------------------------- strings
LowerLetters == "abcdefghijklmnopqrstuvwxyz"
UpperLetters == "ABCDEFGHIJKLMNOPQRSTUVWXYZ"
Digits == "0123456789"

Char(s, i) == SubSeq(s, i, i)
Chars(s) == {Char(s, i) : i \in 1..Len(s)}

IndexIn(s, c) == CHOOSE i \in 1..Len(s) : Char(s, i) = c
ToUpper(c) == IF c \in Chars(LowerLetters) THEN Char(UpperLetters, IndexIn(LowerLetters, c)) ELSE c
ToLower(c) == IF c \in Chars(UpperLetters) THEN Char(LowerLetters, IndexIn(UpperLetters, c)) ELSE c

\* net/textproto CanonicalMIMEHeaderKey, as http.Header's Add, Set, Get and Del
\* apply it: the first letter and every letter after a hyphen in upper case,
\* the rest in lower case.
RECURSIVE CanonFrom(_, _, _)
CanonFrom(s, i, upper) ==
    IF i > Len(s) THEN ""
    ELSE LET c == Char(s, i)
         IN  (IF upper THEN ToUpper(c) ELSE ToLower(c)) \o CanonFrom(s, i + 1, c = "-")

CanonicalMIMEHeaderKey(s) == CanonFrom(s, 1, TRUE)

\* ------------------------------------------------------------- http.Header
\* A header map is a function from the keys present to their value lists.
EmptyHeader == [k \in {} |-> <<>>]

HeaderHas(h, k) == k \in DOMAIN h

HeaderPut(h, k, vv) == [x \in DOMAIN h \cup {k} |-> IF x = k THEN vv ELSE h[x]]

\* Header.Add: append under the canonical key.
HeaderAdd(h, key, v) ==
    LET k == CanonicalMIMEHeaderKey(key)
    IN  HeaderPut(h, k, IF HeaderHas(h, k) THEN Append(h[k], v) ELSE <<v>>)

\* Header.Set: replace the values under the canonical key.
HeaderSet(h, key, v) == HeaderPut(h, CanonicalMIMEHeaderKey(key), <<v>>)

\* Header.Get: the first value under the canonical key, "" when there is none.
HeaderGet(h, key) ==
    LET k == CanonicalMIMEHeaderKey(key)
    IN  IF HeaderHas(h, k) /\ Len(h[k]) > 0 THEN h[k][1] ELSE ""

\* Header.Del: remove the canonical key.
HeaderDel(h, key) ==
    [x \in DOMAIN h \ {CanonicalMIMEHeaderKey(key)} |-> h[x]]

\* ------------------------------------------------------------- Service Resolver
\* endpoints.ResolvedEndpoint
Endpoint(url, method, region, name, partition) ==
    [URL |-> url, SigningMethod |-> method, SigningRegion |-> region,
     SigningName |-> name, PartitionID |-> partition]

\* The host -> endpoint table that init() fills from the SDK's partition data.
\* The entries kept here are one representative of each kind the SDK holds:
\* a regional "v4" service, the global S3 endpoint ("s3": presign), a regional
\* S3 endpoint ("s3v4") and a service whose only signature version is "v2".
services ==
    [h \in {"ec2.us-west-2.amazonaws.com", "s3.amazonaws.com",
            "s3.eu-central-1.amazonaws.com", "sdb.amazonaws.com"} |->
        CASE h = "ec2.us-west-2.amazonaws.com" ->
                Endpoint("https://" \o h, "v4", "us-west-2", "ec2", "aws")
          [] h = "s3.amazonaws.com" ->
                Endpoint("https://" \o h, "s3", "us-east-1", "s3", "aws")
          [] h = "s3.eu-central-1.amazonaws.com" ->
                Endpoint("https://" \o h, "s3v4", "eu-central-1", "s3", "aws")
          [] h = "sdb.amazonaws.com" ->
                Endpoint("https://" \o h, "v2", "us-east-1", "sdb", "aws")]

\* The dot-separated labels of a host.
RECURSIVE LabelsFrom(_, _, _)
LabelsFrom(s, i, cur) ==
    IF i > Len(s) THEN <<cur>>
    ELSE IF Char(s, i) = "." THEN <<cur>> \o LabelsFrom(s, i + 1, "")
    ELSE LabelsFrom(s, i + 1, cur \o Char(s, i))

Labels(s) == LabelsFrom(s, 1, "")

\* The character class [a-zA-Z0-9_-] of both patterns, one or more times.
ClassChars == Chars(LowerLetters) \cup Chars(UpperLetters) \cup Chars(Digits) \cup {"_", "-"}
IsClassWord(l) == Len(l) > 0 /\ \A i \in 1..Len(l) : Char(l, i) \in ClassChars

\* apiGatewayRegex.FindStringSubmatch(host): <<host, prefix, region>>, or <<>>
\* when the host does not match.  The class has no dot, so a match is a host
\* of exactly five labels.
apiGatewayMatches(host) ==
    LET l == Labels(host)
    IN  IF /\ Len(l) = 5
           /\ IsClassWord(l[1]) /\ l[2] = "execute-api" /\ IsClassWord(l[3])
           /\ l[4] = "amazonaws" /\ l[5] = "com"
        THEN <<host, l[1], l[3]>>
        ELSE <<>>

\* elasticSearchRegex.FindStringSubmatch(host)
elasticSearchMatches(host) ==
    LET l == Labels(host)
    IN  IF /\ Len(l) = 5
           /\ IsClassWord(l[1]) /\ IsClassWord(l[2]) /\ l[3] = "es"
           /\ l[4] = "amazonaws" /\ l[5] = "com"
        THEN <<host, l[1], l[2]>>
        ELSE <<>>

\* The two patterns tried in the other order: managed search before API
\* Gateway.
determineAWSServiceFromHost_SearchFirst(host) ==
    IF Len(elasticSearchMatches(host)) = 3
    THEN Some(Endpoint("https://" \o host, "v4", elasticSearchMatches(host)[3], "es", "aws"))
    ELSE IF Len(apiGatewayMatches(host)) = 3
    THEN Some(Endpoint("https://" \o host, "v4", apiGatewayMatches(host)[3], "execute-api", "aws"))
    ELSE IF host \in DOMAIN services THEN Some(services[host])
    ELSE Nil

\* determineAWSServiceFromHost: nil (<<>>) when the host resolves to nothing.
determineAWSServiceFromHost(host) ==
    IF Len(apiGatewayMatches(host)) = 3
    THEN Some(Endpoint("https://" \o host, "v4", apiGatewayMatches(host)[3], "execute-api", "aws"))
    ELSE IF Len(elasticSearchMatches(host)) = 3
    THEN Some(Endpoint("https://" \o host, "v4", elasticSearchMatches(host)[3], "es", "aws"))
    ELSE IF host \in DOMAIN services THEN Some(services[host])
    ELSE Nil

\* ------------------------------------------------------------- Admission Gate
\* The limiter is built for a zero rate as well.
NewRateLimiter_ZeroRateLimits(rps, burst) ==
    [limiter |-> IF rps >= 0 THEN Some([limit |-> rps, burst |-> burst, tokens |-> burst])
                 ELSE Nil]

\* NewRateLimiter: the rate.Limiter exists only for a positive rate; it starts
\* with a full bucket of burst tokens.
NewRateLimiter(rps, burst) ==
    [limiter |-> IF rps > 0 THEN Some([limit |-> rps, burst |-> burst, tokens |-> burst])
                 ELSE Nil]

\* The limiter admits a call that finds the bucket empty, and goes into debt.
Allow_AdmitsAtZero(r) ==
    IF IsNil(r.limiter) THEN [ok |-> TRUE, rl |-> r]
    ELSE IF Val(r.limiter).tokens >= 0
    THEN [ok |-> TRUE,
          rl |-> [r EXCEPT !.limiter = Some([Val(r.limiter) EXCEPT !.tokens = @ - 1])]]
    ELSE [ok |-> FALSE, rl |-> r]

\* RateLimiter.Allow: the verdict and the limiter it leaves behind.  The call
\* runs under r.mu, so it is one step; it never waits.
Allow(r) ==
    IF IsNil(r.limiter) THEN [ok |-> TRUE, rl |-> r]
    ELSE IF Val(r.limiter).tokens >= 1
    THEN [ok |-> TRUE,
          rl |-> [r EXCEPT !.limiter = Some([Val(r.limiter) EXCEPT !.tokens = @ - 1])]]
    ELSE [ok |-> FALSE, rl |-> r]

\* ------------------------------------------------------------- state
VARIABLES
    cfg,          \* the ProxyClient's configuration fields (read-only)
    rateLimiter,  \* ProxyClient.RateLimiter: nil or the shared RateLimiter
    signer,       \* ProxyClient.Signer: the shared v4.Signer
    pc,           \* per task: where it is in ServeHTTP / Do / sign
    req,          \* per task: the inbound *http.Request
    proxyReq,     \* per task: the outbound *http.Request
    service,      \* per task: the resolved endpoint
    signErr,      \* per task: err inside sign, between the Signer call and return
    ret,          \* per task: what Do returned (resp, err)
    w,            \* per task: the client's http.ResponseWriter
    calls         \* per task: the collaborators invoked for the current request

vars == <<cfg, rateLimiter, signer, pc, req, proxyReq, service, signErr, ret, w, calls>>

\* A ResponseWriter nothing has been written to.
NewWriter(canFlush) ==
    [Header |-> EmptyHeader, ops |-> <<>>, canFlush |-> canFlush, sent |-> Nil]

\* The record kept of the request r as it came in and of what was invoked for
\* it so far: the verdicts of Allow, the hosts handed to the Resolver, the
\* calls of the Signing Service, the calls of the Transport.
NoCalls(r) == [inbound |-> r, allow |-> <<>>, resolver |-> <<>>, signer |-> <<>>,
               transport |-> <<>>]

\* Do has not returned.
NoReturn == [resp |-> Nil, err |-> Nil]

\* The state once main has built the ProxyClient and before any request.
\* c.RateLimiter holds the rate and burst the RateLimiter was constructed with,
\* nil for a ProxyClient without one.
InitWith(ProxyClients) ==
    /\ cfg \in ProxyClients
    /\ rateLimiter = IF IsNil(cfg.RateLimiter) THEN Nil
                     ELSE Some(NewRateLimiter(Val(cfg.RateLimiter).rps, Val(cfg.RateLimiter).burst))
    /\ signer = [DisableURIPathEscaping |-> FALSE]
    /\ pc = [t \in Tasks |-> "idle"]
    /\ req = [t \in Tasks |-> Nil]
    /\ proxyReq = [t \in Tasks |-> Nil]
    /\ service = [t \in Tasks |-> Nil]
    /\ signErr = [t \in Tasks |-> Nil]
    /\ ret = [t \in Tasks |-> NoReturn]
    /\ w = [t \in Tasks |-> NewWriter(TRUE)]
    /\ calls = [t \in Tasks |-> NoCalls(Nil)]

\* ------------------------------------------------------------- ProxyClient.Do
\* Do returns (resp, err) to ServeHTTP.
Return(t, resp, err) ==
    /\ ret' = [ret EXCEPT ![t] = [resp |-> resp, err |-> err]]
    /\ pc' = [pc EXCEPT ![t] = "serve"]

\* A denied request is not turned away: Do carries on with it.
DoAdmit_DenialContinues(t, r, canFlush) ==
    /\ pc[t] \in {"idle", "done"}
    /\ req' = [req EXCEPT ![t] = Some(r)]
    /\ w' = [w EXCEPT ![t] = NewWriter(canFlush)]
    /\ proxyReq' = [proxyReq EXCEPT ![t] = Nil]
    /\ service' = [service EXCEPT ![t] = Nil]
    /\ signErr' = [signErr EXCEPT ![t] = Nil]
    /\ ret' = [ret EXCEPT ![t] = NoReturn]
    /\ pc' = [pc EXCEPT ![t] = "prepare"]
    /\ IF IsNil(rateLimiter)
       THEN /\ calls' = [calls EXCEPT ![t] = NoCalls(Some(r))]
            /\ UNCHANGED rateLimiter
       ELSE LET a == Allow(Val(rateLimiter))
            IN  /\ rateLimiter' = Some(a.rl)
                /\ calls' = [calls EXCEPT ![t] = [NoCalls(Some(r)) EXCEPT !.allow = <<a.ok>>]]
    /\ UNCHANGED <<cfg, signer>>

\* ServeHTTP is entered with a request r and a writer, and calls Do, which
\* starts with the admission check.
DoAdmit(t, r, canFlush) ==
    /\ pc[t] \in {"idle", "done"}
    /\ req' = [req EXCEPT ![t] = Some(r)]
    /\ w' = [w EXCEPT ![t] = NewWriter(canFlush)]
    /\ proxyReq' = [proxyReq EXCEPT ![t] = Nil]
    /\ service' = [service EXCEPT ![t] = Nil]
    /\ signErr' = [signErr EXCEPT ![t] = Nil]
    /\ IF IsNil(rateLimiter)
       THEN /\ calls' = [calls EXCEPT ![t] = NoCalls(Some(r))]
            /\ ret' = [ret EXCEPT ![t] = NoReturn]
            /\ pc' = [pc EXCEPT ![t] = "prepare"]
            /\ UNCHANGED rateLimiter
       ELSE LET a == Allow(Val(rateLimiter))
            IN  /\ rateLimiter' = Some(a.rl)
                /\ calls' = [calls EXCEPT ![t] = [NoCalls(Some(r)) EXCEPT !.allow = <<a.ok>>]]
                /\ IF a.ok
                   THEN /\ ret' = [ret EXCEPT ![t] = NoReturn]
                        /\ pc' = [pc EXCEPT ![t] = "prepare"]
                   ELSE Return(t, Nil, Some("rate limit exceeded"))
    /\ UNCHANGED <<cfg, signer>>

\* Time passes: the rate.Limiter gains tokens at its rate, up to its burst.
Refill ==
    /\ ~IsNil(rateLimiter)
    /\ ~IsNil(Val(rateLimiter).limiter)
    /\ LET l == Val(Val(rateLimiter).limiter)
           n == IF l.tokens + l.limit > l.burst THEN l.burst ELSE l.tokens + l.limit
       IN  /\ n # l.tokens
           /\ rateLimiter' = Some([limiter |-> Some([l EXCEPT !.tokens = n])])
    /\ UNCHANGED <<cfg, signer, pc, req, proxyReq, service, signErr, ret, w, calls>>

\* A request that lists no transfer coding at all is taken for chunked.
chunked_AbsentIsChunked(transferEncoding) == transferEncoding # <<"identity">>

\* Only the coding "chunked" itself counts.
chunked_LiteralChunked(transferEncoding) ==
    \E i \in 1..Len(transferEncoding) : transferEncoding[i] = "chunked"

\* chunked: some transfer coding other than "identity" is listed.
chunked(transferEncoding) ==
    \E i \in 1..Len(transferEncoding) : transferEncoding[i] # "identity"

\* A body reader: the results its Read calls return in turn, and how many of
\* them were consumed.  Past the last one Read returns (0, io.EOF).
Reader(reads) == [reads |-> reads, pos |-> 0, closed |-> 0, nop |-> FALSE]
BytesReader(b) == Reader(IF b = "" THEN <<>> ELSE <<[data |-> b, err |-> ""]>>)

\* io.ReadAll from the reader's position: the bytes up to the first error,
\* with io.EOF reported as no error.
RECURSIVE ReadAll(_)
ReadAll(body) ==
    IF body.pos >= Len(body.reads) THEN [data |-> "", err |-> "", body |-> body]
    ELSE LET r == body.reads[body.pos + 1]
             next == [body EXCEPT !.pos = @ + 1]
         IN  IF r.err = "" 
             THEN LET rest == ReadAll(next)
                  IN  [rest EXCEPT !.data = r.data \o @]
             ELSE [data |-> r.data, err |-> IF r.err = "EOF" THEN "" ELSE r.err, body |-> next]

\* readDownStreamRequestBody: the inbound body read to its end and closed.
readDownStreamRequestBody(r) ==
    IF IsNil(r.Body) THEN [data |-> "", err |-> "", req |-> r]
    ELSE LET got == ReadAll(Val(r.Body))
         IN  [data |-> got.data, err |-> got.err,
              req |-> [r EXCEPT !.Body = Some([got.body EXCEPT !.closed = @ + 1])]]

\* net/http validMethod: a non-empty token (the apostrophe and the backquote,
\* token characters too, are in no method the model sends).
TokenChars == ClassChars \cup {"!", "#", "$", "%", "&", "*", "+", ".", "^", "|", "~"}
validMethod(m) == Len(m) > 0 /\ \A i \in 1..Len(m) : Char(m, i) \in TokenChars

\* The precedence turned round: the Resolver is asked first and the override
\* pair only fills in for a host it does not know.
ResolveEndpoint_ResolverFirst(c, proxyURL, host) ==
    IF ~IsNil(determineAWSServiceFromHost(host)) \/ c.SigningNameOverride = "" \/ c.RegionOverride = ""
    THEN [service |-> determineAWSServiceFromHost(host), consulted |-> <<host>>]
    ELSE [service |-> Some(Endpoint(proxyURL.Scheme \o "://" \o proxyURL.Host, "v4",
                                    c.RegionOverride, c.SigningNameOverride, "")),
          consulted |-> <<host>>]

\* The Resolver is asked about the rewritten proxy host, not the inbound one.
ResolveEndpoint_ProxyHost(c, proxyURL, host) ==
    IF c.SigningNameOverride # "" /\ c.RegionOverride # ""
    THEN [service |-> Some(Endpoint(proxyURL.Scheme \o "://" \o proxyURL.Host, "v4",
                                    c.RegionOverride, c.SigningNameOverride, "")),
          consulted |-> <<>>]
    ELSE [service |-> determineAWSServiceFromHost(proxyURL.Host),
          consulted |-> <<proxyURL.Host>>]

\* An override set alone replaces its half of what the Resolver found.
ResolveEndpoint_PartialOverride(c, proxyURL, host) ==
    IF c.SigningNameOverride # "" /\ c.RegionOverride # ""
    THEN [service |-> Some(Endpoint(proxyURL.Scheme \o "://" \o proxyURL.Host, "v4",
                                    c.RegionOverride, c.SigningNameOverride, "")),
          consulted |-> <<>>]
    ELSE LET found == determineAWSServiceFromHost(host)
         IN  [service |->
                 IF IsNil(found) THEN Nil
                 ELSE Some([Val(found) EXCEPT
                        !.SigningName = IF c.SigningNameOverride # "" THEN c.SigningNameOverride ELSE @,
                        !.SigningRegion = IF c.RegionOverride # "" THEN c.RegionOverride ELSE @]),
              consulted |-> <<host>>]

\* Lines 184-188 of Do: the endpoint to sign for comes from the override pair
\* when both are set and from the Resolver, asked about the inbound host,
\* otherwise.  consulted lists the hosts the Resolver was asked about.
ResolveEndpoint(c, proxyURL, host) ==
    IF c.SigningNameOverride # "" /\ c.RegionOverride # ""
    THEN [service |-> Some(Endpoint(proxyURL.Scheme \o "://" \o proxyURL.Host, "v4",
                                    c.RegionOverride, c.SigningNameOverride, "")),
          consulted |-> <<>>]
    ELSE [service |-> determineAWSServiceFromHost(host), consulted |-> <<host>>]

\* The error names the rewritten proxy host instead of the inbound one.
UnresolvedHostError_ProxyHost(r, proxyURL) ==
    "unable to determine service from host: " \o proxyURL.Host

\* Line 190 of Do: the error for a host that resolves to nothing.
UnresolvedHostError(r, proxyURL) ==
    "unable to determine service from host: " \o r.Host

\* The signing host override is written into the URL of the outbound request,
\* the network destination, and its Host is left as the proxy target.
DoPrepare_SignHostAsTarget(t) ==
    /\ pc[t] = "prepare"
    /\ LET r == Val(req[t])
           host == IF cfg.HostOverride # "" THEN cfg.HostOverride ELSE r.Host
           scheme == IF cfg.SchemeOverride # "" THEN cfg.SchemeOverride ELSE "https"
           proxyURL == [r.URL EXCEPT !.Host = host, !.Scheme = scheme]
           got == readDownStreamRequestBody(r)
           method == IF r.Method = "" THEN "GET" ELSE r.Method
           reqChunked == chunked(r.TransferEncoding)
           built == [Method |-> method, URL |-> proxyURL, Host |-> proxyURL.Host,
                     Header |-> EmptyHeader, Body |-> Some(BytesReader(got.data)),
                     ContentLength |->
                        IF ~reqChunked /\ r.ContentLength >= 0 THEN r.ContentLength
                        ELSE Len(got.data),
                     TransferEncoding |-> <<>>]
           signed == IF cfg.SigningHostOverride # ""
                     THEN [built EXCEPT !.URL.Host = cfg.SigningHostOverride]
                     ELSE built
           found == ResolveEndpoint(cfg, proxyURL, r.Host)
       IN  /\ req' = [req EXCEPT ![t] = Some(got.req)]
           /\ IF got.err # ""
              THEN /\ Return(t, Nil, Some(got.err))
                   /\ UNCHANGED <<proxyReq, service, calls>>
              ELSE IF ~validMethod(method)
              THEN /\ Return(t, Nil, Some("net/http: invalid method \"" \o method \o "\""))
                   /\ UNCHANGED <<proxyReq, service, calls>>
              ELSE /\ proxyReq' = [proxyReq EXCEPT ![t] = Some(signed)]
                   /\ service' = [service EXCEPT ![t] = found.service]
                   /\ calls' = [calls EXCEPT ![t].resolver = @ \o found.consulted]
                   /\ IF IsNil(found.service)
                      THEN Return(t, Nil, Some(UnresolvedHostError(r, proxyURL)))
                      ELSE /\ pc' = [pc EXCEPT ![t] = "signEnter"]
                           /\ UNCHANGED ret
    /\ UNCHANGED <<cfg, rateLimiter, signer, signErr, w>>

\* Lines 139-191 of Do: the proxy target, the inbound body read into memory,
\* the outbound request, its content length and Host, and the endpoint to
\* sign for.
DoPrepare(t) ==
    /\ pc[t] = "prepare"
    /\ LET r == Val(req[t])
           host == IF cfg.HostOverride # "" THEN cfg.HostOverride ELSE r.Host
           scheme == IF cfg.SchemeOverride # "" THEN cfg.SchemeOverride ELSE "https"
           proxyURL == [r.URL EXCEPT !.Host = host, !.Scheme = scheme]
           got == readDownStreamRequestBody(r)
           method == IF r.Method = "" THEN "GET" ELSE r.Method
           reqChunked == chunked(r.TransferEncoding)
           built == [Method |-> method, URL |-> proxyURL, Host |-> proxyURL.Host,
                     Header |-> EmptyHeader, Body |-> Some(BytesReader(got.data)),
                     ContentLength |->
                        IF ~reqChunked /\ r.ContentLength >= 0 THEN r.ContentLength
                        ELSE Len(got.data),
                     TransferEncoding |-> <<>>]
           signed == IF cfg.SigningHostOverride # ""
                     THEN [built EXCEPT !.Host = cfg.SigningHostOverride]
                     ELSE built
           found == ResolveEndpoint(cfg, proxyURL, r.Host)
       IN  /\ req' = [req EXCEPT ![t] = Some(got.req)]
           /\ IF got.err # ""
              THEN /\ Return(t, Nil, Some(got.err))
                   /\ UNCHANGED <<proxyReq, service, calls>>
              ELSE IF ~validMethod(method)
              THEN /\ Return(t, Nil, Some("net/http: invalid method \"" \o method \o "\""))
                   /\ UNCHANGED <<proxyReq, service, calls>>
              ELSE /\ proxyReq' = [proxyReq EXCEPT ![t] = Some(signed)]
                   /\ service' = [service EXCEPT ![t] = found.service]
                   /\ calls' = [calls EXCEPT ![t].resolver = @ \o found.consulted]
                   /\ IF IsNil(found.service)
                      THEN Return(t, Nil, Some(UnresolvedHostError(r, proxyURL)))
                      ELSE /\ pc' = [pc EXCEPT ![t] = "signEnter"]
                           /\ UNCHANGED ret
    /\ UNCHANGED <<cfg, rateLimiter, signer, signErr, w>>

\* ------------------------------------------------------------- ProxyClient.sign
\* Lines 54-74 of sign: the outbound body is read to its end, and for the
\* signing name "s3" the shared signer's path escaping is switched off.
SignEnter(t) ==
    /\ pc[t] = "signEnter"
    /\ LET p == Val(proxyReq[t])
       IN  proxyReq' = [proxyReq EXCEPT ![t] =
                            Some([p EXCEPT !.Body = Some(ReadAll(Val(p.Body)).body)])]
    /\ signer' = IF Val(service[t]).SigningName = "s3"
                 THEN [signer EXCEPT !.DisableURIPathEscaping = TRUE]
                 ELSE signer
    /\ pc' = [pc EXCEPT ![t] = "signCall"]
    /\ UNCHANGED <<cfg, rateLimiter, req, service, signErr, ret, w, calls>>

\* What the Signing Service computes: it depends on the name, the region, the
\* Host signed for and on whether the path was escaped.
Signature(svc, host, escaped) ==
    "Credential=" \o svc.SigningRegion \o "/" \o svc.SigningName \o
    ",Host=" \o host \o ",Path=" \o (IF escaped THEN "escaped" ELSE "raw")

\* The method "s3v4" is served by Presign, as "s3" is, instead of by Sign.
SignCall_S3v4Presigns(t, cred) ==
    /\ pc[t] = "signCall"
    /\ LET p == Val(proxyReq[t])
           svc == Val(service[t])
           escaped == ~signer.DisableURIPathEscaping
           sig == Signature(svc, p.Host, escaped)
           signed == HeaderSet(HeaderSet(p.Header, "X-Amz-Date", "20060102T150405Z"),
                               "Authorization", "AWS4-HMAC-SHA256 " \o sig)
           call(op, header) ==
               [op |-> op, name |-> svc.SigningName, region |-> svc.SigningRegion,
                escaped |-> escaped, host |-> p.Host, err |-> cred,
                header |-> IF IsNil(cred) THEN header ELSE p.Header]
       IN  IF svc.SigningMethod = "v4"
           THEN /\ calls' = [calls EXCEPT ![t].signer = Append(@, call("Sign", signed))]
                /\ signErr' = [signErr EXCEPT ![t] = cred]
                /\ proxyReq' = IF IsNil(cred)
                     THEN [proxyReq EXCEPT ![t] = Some([p EXCEPT
                              !.Header = signed,
                              !.Body = Some([Val(@) EXCEPT !.pos = 0])])]
                     ELSE proxyReq
           ELSE IF svc.SigningMethod \in {"s3", "s3v4"}
           THEN /\ calls' = [calls EXCEPT ![t].signer = Append(@, call("Presign", p.Header))]
                /\ signErr' = [signErr EXCEPT ![t] = cred]
                /\ proxyReq' = IF IsNil(cred)
                     THEN [proxyReq EXCEPT ![t] = Some([p EXCEPT
                              !.URL.RawQuery = "X-Amz-Expires=3600&X-Amz-Signature=" \o sig])]
                     ELSE proxyReq
           ELSE /\ signErr' = [signErr EXCEPT ![t] =
                        Some("unable to sign with specified signing method " \o
                             svc.SigningMethod \o " for service " \o svc.SigningName)]
                /\ UNCHANGED <<calls, proxyReq>>
    /\ pc' = [pc EXCEPT ![t] = "signReturn"]
    /\ UNCHANGED <<cfg, rateLimiter, signer, req, service, ret, w>>

\* Lines 76-87 of sign: the call of the Signing Service the signing method
\* selects.  cred is the outcome of the credential retrieval inside the call
\* (nil, or its error).  The Signer reads DisableURIPathEscaping as the call
\* starts.  Sign sets the signature headers and attaches the rewound body;
\* Presign extends the URL's query and leaves headers and body alone.
SignCall(t, cred) ==
    /\ pc[t] = "signCall"
    /\ LET p == Val(proxyReq[t])
           svc == Val(service[t])
           escaped == ~signer.DisableURIPathEscaping
           sig == Signature(svc, p.Host, escaped)
           signed == HeaderSet(HeaderSet(p.Header, "X-Amz-Date", "20060102T150405Z"),
                               "Authorization", "AWS4-HMAC-SHA256 " \o sig)
           call(op, header) ==
               [op |-> op, name |-> svc.SigningName, region |-> svc.SigningRegion,
                escaped |-> escaped, host |-> p.Host, err |-> cred,
                header |-> IF IsNil(cred) THEN header ELSE p.Header]
       IN  IF svc.SigningMethod \in {"v4", "s3v4"}
           THEN /\ calls' = [calls EXCEPT ![t].signer = Append(@, call("Sign", signed))]
                /\ signErr' = [signErr EXCEPT ![t] = cred]
                /\ proxyReq' = IF IsNil(cred)
                     THEN [proxyReq EXCEPT ![t] = Some([p EXCEPT
                              !.Header = signed,
                              !.Body = Some([Val(@) EXCEPT !.pos = 0])])]
                     ELSE proxyReq
           ELSE IF svc.SigningMethod = "s3"
           THEN /\ calls' = [calls EXCEPT ![t].signer = Append(@, call("Presign", p.Header))]
                /\ signErr' = [signErr EXCEPT ![t] = cred]
                /\ proxyReq' = IF IsNil(cred)
                     THEN [proxyReq EXCEPT ![t] = Some([p EXCEPT
                              !.URL.RawQuery = "X-Amz-Expires=3600&X-Amz-Signature=" \o sig])]
                     ELSE proxyReq
           ELSE /\ signErr' = [signErr EXCEPT ![t] =
                        Some("unable to sign with specified signing method " \o
                             svc.SigningMethod \o " for service " \o svc.SigningName)]
                /\ UNCHANGED <<calls, proxyReq>>
    /\ pc' = [pc EXCEPT ![t] = "signReturn"]
    /\ UNCHANGED <<cfg, rateLimiter, signer, req, service, ret, w>>

\* The escaping is switched back on only when signing succeeded.
SignReturn_ResetOnSuccessOnly(t) ==
    /\ pc[t] = "signReturn"
    /\ signer' = IF Val(service[t]).SigningName = "s3" /\ IsNil(signErr[t])
                 THEN [signer EXCEPT !.DisableURIPathEscaping = FALSE]
                 ELSE signer
    /\ IF IsNil(signErr[t])
       THEN /\ pc' = [pc EXCEPT ![t] = "dispatch"]
            /\ UNCHANGED ret
       ELSE Return(t, Nil, signErr[t])
    /\ UNCHANGED <<cfg, rateLimiter, req, proxyReq, service, signErr, w, calls>>

\* The error of sign is dropped and the request dispatched all the same.
SignReturn_IgnoresError(t) ==
    /\ pc[t] = "signReturn"
    /\ signer' = IF Val(service[t]).SigningName = "s3"
                 THEN [signer EXCEPT !.DisableURIPathEscaping = FALSE]
                 ELSE signer
    /\ pc' = [pc EXCEPT ![t] = "dispatch"]
    /\ UNCHANGED <<cfg, rateLimiter, req, proxyReq, service, signErr, ret, w, calls>>

\* sign returns: the deferred function of lines 71-73 switches escaping back
\* on when the signing name is "s3", and Do (lines 193-195) gives up on err.
SignReturn(t) ==
    /\ pc[t] = "signReturn"
    /\ signer' = IF Val(service[t]).SigningName = "s3"
                 THEN [signer EXCEPT !.DisableURIPathEscaping = FALSE]
                 ELSE signer
    /\ IF IsNil(signErr[t])
       THEN /\ pc' = [pc EXCEPT ![t] = "dispatch"]
            /\ UNCHANGED ret
       ELSE Return(t, Nil, signErr[t])
    /\ UNCHANGED <<cfg, rateLimiter, req, proxyReq, service, signErr, w, calls>>

\* ------------------------------------------------------------- header policy
RECURSIVE AddValues(_, _, _, _)
AddValues(h, k, vv, i) ==
    IF i > Len(vv) THEN h ELSE AddValues(HeaderAdd(h, k, vv[i]), k, vv, i + 1)

\* The copy with Set in the place of Add: of the values of a header only the
\* last one stays.
RECURSIVE CopyKeys_LastValue(_, _, _)
CopyKeys_LastValue(dst, src, keys) ==
    IF keys = {} THEN dst
    ELSE LET k == CHOOSE x \in keys : TRUE
         IN  CopyKeys_LastValue(
                 IF src[k] = <<>> THEN dst ELSE HeaderSet(dst, k, src[k][Len(src[k])]),
                 src, keys \ {k})

\* The range loop of ServeHTTP's lines 116-120 over the keys still to visit:
\* every value of every header is added.
RECURSIVE CopyKeys(_, _, _)
CopyKeys(dst, src, keys) ==
    IF keys = {} THEN dst
    ELSE LET k == CHOOSE x \in keys : TRUE
         IN  CopyKeys(AddValues(dst, k, src[k], 1), src, keys \ {k})

\* The copy without its presence test: the values are added to what is there.
copyHeader_Appends(dst, src) == CopyKeys(dst, src, DOMAIN src)

\* The copy with the presence test dropped and Set in the place of Add: the
\* values of src replace whatever dst holds under the same key.
copyHeader_Overwrites(dst, src) ==
    [k \in DOMAIN dst \cup DOMAIN src |-> IF k \in DOMAIN src THEN src[k] ELSE dst[k]]

\* The range loop of copyHeaderWithoutOverwrite over the keys still to visit:
\* a key that dst already holds is skipped, the values of any other are added.
RECURSIVE CopyKeysWithoutOverwrite(_, _, _)
CopyKeysWithoutOverwrite(dst, src, keys) ==
    IF keys = {} THEN dst
    ELSE LET k == CHOOSE x \in keys : TRUE
         IN  CopyKeysWithoutOverwrite(
                 IF k \notin DOMAIN dst THEN AddValues(dst, k, src[k], 1) ELSE dst,
                 src, keys \ {k})

copyHeaderWithoutOverwrite(dst, src) == CopyKeysWithoutOverwrite(dst, src, DOMAIN src)

\* The header is deleted under the name as configured, not its canonical form.
RECURSIVE StripHeaders_RawKey(_, _, _)
StripHeaders_RawKey(h, names, i) ==
    IF i > Len(names) THEN h
    ELSE StripHeaders_RawKey([x \in DOMAIN h \ {names[i]} |-> h[x]], names, i + 1)

\* The loop of lines 214-217: req.Header.Del for every header to strip.
RECURSIVE StripHeaders(_, _, _)
StripHeaders(h, names, i) ==
    IF i > Len(names) THEN h ELSE StripHeaders(HeaderDel(h, names[i]), names, i + 1)

\* The duplication without its test for an empty value.
RECURSIVE DuplicateHeaders_CopiesEmpty(_, _, _, _)
DuplicateHeaders_CopiesEmpty(out, in, names, i) ==
    IF i > Len(names) THEN out
    ELSE DuplicateHeaders_CopiesEmpty(
             HeaderSet(out, "X-Original-" \o names[i], HeaderGet(in, names[i])),
             in, names, i + 1)

\* The loop of lines 221-231: every header to duplicate that the inbound
\* request holds a non-empty value of is set as X-Original-<name>.
RECURSIVE DuplicateHeaders(_, _, _, _)
DuplicateHeaders(out, in, names, i) ==
    IF i > Len(names) THEN out
    ELSE LET headerValue == HeaderGet(in, names[i])
         IN  DuplicateHeaders(
                 IF headerValue = "" THEN out
                 ELSE HeaderSet(out, "X-Original-" \o names[i], headerValue),
                 in, names, i + 1)

\* Lines 252-262 of Do: a logged failed response has its body read to the end
\* (the read error dropped) and replaced by an in-memory copy whose Close does
\* nothing; the Transport's body is left behind, unclosed.
LogFailed(resp) ==
    LET got == ReadAll(resp.Body)
    IN  [resp EXCEPT !.Body = [BytesReader(got.data) EXCEPT !.nop = TRUE],
                     !.orig = Some(got.body)]

\* The Transport's error is wrapped, and the response kept beside it.
Respond_Wrapped(c, out) ==
    IF ~IsNil(out.err) THEN [resp |-> Nil, err |-> Some("proxy: " \o Val(out.err))]
    ELSE [resp |-> Some(IF (c.LogFailedRequest \/ c.Debug) /\ Val(out.resp).StatusCode >= 400
                        THEN LogFailed(Val(out.resp)) ELSE Val(out.resp)),
          err |-> Nil]

\* Lines 248-264 of Do: what Do returns once the Transport has answered out.
Respond(c, out) ==
    IF ~IsNil(out.err) THEN [resp |-> Nil, err |-> out.err]
    ELSE [resp |-> Some(IF (c.LogFailedRequest \/ c.Debug) /\ Val(out.resp).StatusCode >= 400
                        THEN LogFailed(Val(out.resp)) ELSE Val(out.resp)),
          err |-> Nil]

\* The merges write into the inbound header map: the caller's request comes
\* back with the signed and the custom headers in it.
DoDispatch_MergesIntoInbound(t, out) ==
    /\ pc[t] = "dispatch"
    /\ LET r == Val(req[t])
           p == Val(proxyReq[t])
           stripped == StripHeaders(r.Header, cfg.StripRequestHeaders, 1)
           duplicated == DuplicateHeaders(p.Header, stripped, cfg.DuplicateRequestHeaders, 1)
           merged == copyHeaderWithoutOverwrite(
                         copyHeaderWithoutOverwrite(duplicated, stripped), cfg.CustomHeaders)
           sent == [p EXCEPT !.TransferEncoding =
                                 IF ~chunked(r.TransferEncoding) THEN <<"identity">>
                                 ELSE r.TransferEncoding,
                             !.Header = merged]
       IN  /\ req' = [req EXCEPT ![t] = Some([r EXCEPT !.Header = merged])]
           /\ proxyReq' = [proxyReq EXCEPT ![t] = Some(sent)]
           /\ calls' = [calls EXCEPT ![t].transport = Append(@, [req |-> sent, out |-> out])]
           /\ Return(t, Respond(cfg, out).resp, Respond(cfg, out).err)
    /\ UNCHANGED <<cfg, rateLimiter, signer, service, signErr, w>>

\* Lines 206-264 of Do: the transfer-encoding fixup, the header policy, the
\* one call of the Transport (out is what it returns: an error or a response)
\* and the logging of a failed response.
DoDispatch(t, out) ==
    /\ pc[t] = "dispatch"
    /\ LET r == Val(req[t])
           p == Val(proxyReq[t])
           stripped == StripHeaders(r.Header, cfg.StripRequestHeaders, 1)
           duplicated == DuplicateHeaders(p.Header, stripped, cfg.DuplicateRequestHeaders, 1)
           merged == copyHeaderWithoutOverwrite(
                         copyHeaderWithoutOverwrite(duplicated, stripped), cfg.CustomHeaders)
           sent == [p EXCEPT !.TransferEncoding =
                                 IF ~chunked(r.TransferEncoding) THEN <<"identity">>
                                 ELSE r.TransferEncoding,
                             !.Header = merged]
       IN  /\ req' = [req EXCEPT ![t] = Some([r EXCEPT !.Header = stripped])]
           /\ proxyReq' = [proxyReq EXCEPT ![t] = Some(sent)]
           /\ calls' = [calls EXCEPT ![t].transport = Append(@, [req |-> sent, out |-> out])]
           /\ Return(t, Respond(cfg, out).resp, Respond(cfg, out).err)
    /\ UNCHANGED <<cfg, rateLimiter, signer, service, signErr, w>>

\* ------------------------------------------------------------- Handler
WriteHeaderOp(code) == [op |-> "WriteHeader", code |-> code, data |-> "", ok |-> TRUE]
WriteOp(data, ok) == [op |-> "Write", code |-> 0, data |-> data, ok |-> ok]
FlushOp == [op |-> "Flush", code |-> 0, data |-> "", ok |-> TRUE]

\* w.WriteHeader(code): the status goes out with the headers the writer holds
\* at that moment (sent); what is added to the header map later goes nowhere.
WriteHeader(wr, code) ==
    [wr EXCEPT !.ops = Append(@, WriteHeaderOp(code)),
               !.sent = IF IsNil(@) THEN Some(wr.Header) ELSE @]

\* The status is left to the first Write, which implies 200.
write_ImplicitStatus(wr, status, body) ==
    [wr EXCEPT !.ops = @ \o <<WriteOp(body, TRUE)>>]

\* Handler.write: the status, then the body.
write(wr, status, body) ==
    [WriteHeader(wr, status) EXCEPT !.ops = Append(@, WriteOp(body, TRUE))]

\* resp.Body.Close(), deferred by ServeHTTP.
CloseBody(resp) ==
    IF resp.Body.nop THEN resp ELSE [resp EXCEPT !.Body.closed = @ + 1]

\* The error branch as it once was: status 400 and the bare error text.
ServeError_BadRequest(t) ==
    /\ pc[t] = "serve"
    /\ ~IsNil(ret[t].err)
    /\ w' = [w EXCEPT ![t] = write(@, 400, Val(ret[t].err))]
    /\ pc' = [pc EXCEPT ![t] = "done"]
    /\ UNCHANGED <<cfg, rateLimiter, signer, req, proxyReq, service, signErr, ret, calls>>

\* Lines 104-109 of ServeHTTP: Do failed.
ServeError(t) ==
    /\ pc[t] = "serve"
    /\ ~IsNil(ret[t].err)
    /\ w' = [w EXCEPT ![t] = write(@, 502, "unable to proxy request - " \o Val(ret[t].err))]
    /\ pc' = [pc EXCEPT ![t] = "done"]
    /\ UNCHANGED <<cfg, rateLimiter, signer, req, proxyReq, service, signErr, ret, calls>>

\* The upstream headers are copied once the status is out, not before.
ServeRelay_StatusBeforeHeaders(t) ==
    /\ pc[t] = "serve"
    /\ IsNil(ret[t].err)
    /\ LET resp == Val(ret[t].resp)
           shouldStream == chunked(resp.TransferEncoding) \/ resp.ContentLength < 0
           late(wr) == [wr EXCEPT !.Header = CopyKeys(@, resp.Header, DOMAIN resp.Header)]
           got == ReadAll(resp.Body)
       IN  IF ~shouldStream
           THEN /\ w' = [w EXCEPT ![t] =
                           IF got.err # ""
                           THEN late(write(@, 500,
                                      "error while reading response from upstream - " \o got.err))
                           ELSE late(write(@, resp.StatusCode, got.data))]
                /\ ret' = [ret EXCEPT ![t].resp = Some(CloseBody([resp EXCEPT !.Body = got.body]))]
                /\ pc' = [pc EXCEPT ![t] = "done"]
           ELSE /\ w' = [w EXCEPT ![t] = late(WriteHeader(@, resp.StatusCode))]
                /\ pc' = [pc EXCEPT ![t] = "stream"]
                /\ UNCHANGED ret
    /\ UNCHANGED <<cfg, rateLimiter, signer, req, proxyReq, service, signErr, calls>>

\* The 500 for a body that could not be read goes out without the upstream
\* headers.
ServeRelay_BareFailure(t) ==
    /\ pc[t] = "serve"
    /\ IsNil(ret[t].err)
    /\ LET resp == Val(ret[t].resp)
           shouldStream == chunked(resp.TransferEncoding) \/ resp.ContentLength < 0
           copied == [w[t] EXCEPT !.Header = CopyKeys(@, resp.Header, DOMAIN resp.Header)]
           got == ReadAll(resp.Body)
       IN  IF ~shouldStream
           THEN /\ w' = [w EXCEPT ![t] =
                           IF got.err # ""
                           THEN write(w[t], 500,
                                      "error while reading response from upstream - " \o got.err)
                           ELSE write(copied, resp.StatusCode, got.data)]
                /\ ret' = [ret EXCEPT ![t].resp = Some(CloseBody([resp EXCEPT !.Body = got.body]))]
                /\ pc' = [pc EXCEPT ![t] = "done"]
           ELSE /\ w' = [w EXCEPT ![t] = WriteHeader(copied, resp.StatusCode)]
                /\ pc' = [pc EXCEPT ![t] = "stream"]
                /\ UNCHANGED ret
    /\ UNCHANGED <<cfg, rateLimiter, signer, req, proxyReq, service, signErr, calls>>

\* Lines 110-136 of ServeHTTP: the upstream headers are copied; a response of
\* known length that is not chunked is read whole and written at once, any
\* other has its status written and is then streamed.
ServeRelay(t) ==
    /\ pc[t] = "serve"
    /\ IsNil(ret[t].err)
    /\ LET resp == Val(ret[t].resp)
           shouldStream == chunked(resp.TransferEncoding) \/ resp.ContentLength < 0
           copied == [w[t] EXCEPT !.Header = CopyKeys(@, resp.Header, DOMAIN resp.Header)]
           got == ReadAll(resp.Body)
       IN  IF ~shouldStream
           THEN /\ w' = [w EXCEPT ![t] =
                           IF got.err # ""
                           THEN write(copied, 500,
                                      "error while reading response from upstream - " \o got.err)
                           ELSE write(copied, resp.StatusCode, got.data)]
                /\ ret' = [ret EXCEPT ![t].resp = Some(CloseBody([resp EXCEPT !.Body = got.body]))]
                /\ pc' = [pc EXCEPT ![t] = "done"]
           ELSE /\ w' = [w EXCEPT ![t] = WriteHeader(copied, resp.StatusCode)]
                /\ pc' = [pc EXCEPT ![t] = "stream"]
                /\ UNCHANGED ret
    /\ UNCHANGED <<cfg, rateLimiter, signer, req, proxyReq, service, signErr, calls>>

\* ServeHTTP as it stands with the health check (handler.go 36-66), from the
\* return of Do on: the path "/health" is answered 200 with nothing else,
\* whatever Do returned and with its response left unclosed; an error of Do
\* is answered 502; otherwise the body is copied whole into a buffer, then
\* the headers are copied and status and body written, or 500 when the copy
\* of the body failed.
ServeHTTPHealth(t) ==
    /\ pc[t] = "serve"
    /\ IF Val(req[t]).URL.Path = "/health"
       THEN /\ w' = [w EXCEPT ![t] = WriteHeader(@, 200)]
            /\ UNCHANGED ret
       ELSE IF ~IsNil(ret[t].err)
       THEN /\ w' = [w EXCEPT ![t] = write(@, 502, "unable to proxy request - " \o Val(ret[t].err))]
            /\ UNCHANGED ret
       ELSE LET resp == Val(ret[t].resp)
                got == ReadAll(resp.Body)
                copied == [w[t] EXCEPT !.Header = CopyKeys(@, resp.Header, DOMAIN resp.Header)]
            IN  /\ w' = [w EXCEPT ![t] =
                            IF got.err # ""
                            THEN write(@, 500,
                                       "error while reading response from upstream - " \o got.err)
                            ELSE write(copied, resp.StatusCode, got.data)]
                /\ ret' = [ret EXCEPT ![t].resp = Some(CloseBody([resp EXCEPT !.Body = got.body]))]
    /\ pc' = [pc EXCEPT ![t] = "done"]
    /\ UNCHANGED <<cfg, rateLimiter, signer, req, proxyReq, service, signErr, calls>>

\* resp.Body.Read(buf): the next read result, io.EOF past the last.
Read(body) ==
    IF body.pos >= Len(body.reads) THEN [data |-> "", err |-> "EOF", body |-> body]
    ELSE [data |-> body.reads[body.pos + 1].data, err |-> body.reads[body.pos + 1].err,
          body |-> [body EXCEPT !.pos = @ + 1]]

\* The flush is not tied to a write: every turn of the loop flushes.
StreamStep_FlushesEveryTurn(t, writeOk) ==
    /\ pc[t] = "stream"
    /\ LET resp == Val(ret[t].resp)
           got == Read(resp.Body)
           after == [resp EXCEPT !.Body = got.body]
           n == Len(got.data)
           written == IF n > 0 THEN [w[t] EXCEPT !.ops = Append(@, WriteOp(got.data, writeOk))]
                      ELSE w[t]
           flushed == IF writeOk /\ w[t].canFlush
                      THEN [written EXCEPT !.ops = Append(@, FlushOp)]
                      ELSE written
       IN  IF n > 0 /\ ~writeOk
           THEN /\ w' = [w EXCEPT ![t] = written]
                /\ ret' = [ret EXCEPT ![t].resp = Some(CloseBody(after))]
                /\ pc' = [pc EXCEPT ![t] = "done"]
           ELSE IF got.err = "EOF"
           THEN /\ w' = [w EXCEPT ![t] = flushed]
                /\ ret' = [ret EXCEPT ![t].resp = Some(CloseBody(after))]
                /\ pc' = [pc EXCEPT ![t] = "done"]
           ELSE IF got.err # ""
           THEN /\ w' = [w EXCEPT ![t] = [flushed EXCEPT !.ops = Append(@,
                           WriteOp("error while streaming response from upstream - " \o got.err, TRUE))]]
                /\ ret' = [ret EXCEPT ![t].resp = Some(CloseBody(after))]
                /\ pc' = [pc EXCEPT ![t] = "done"]
           ELSE /\ w' = [w EXCEPT ![t] = flushed]
                /\ ret' = [ret EXCEPT ![t].resp = Some(after)]
                /\ UNCHANGED pc
    /\ UNCHANGED <<cfg, rateLimiter, signer, req, proxyReq, service, signErr, calls>>

\* A failed write ends the loop only when the read before it failed as well.
StreamStep_ReturnsOnReadErrorOnly(t, writeOk) ==
    /\ pc[t] = "stream"
    /\ LET resp == Val(ret[t].resp)
           got == Read(resp.Body)
           after == [resp EXCEPT !.Body = got.body]
           n == Len(got.data)
           written == IF n > 0 THEN [w[t] EXCEPT !.ops = Append(@, WriteOp(got.data, writeOk))]
                      ELSE w[t]
           flushed == IF n > 0 /\ writeOk /\ w[t].canFlush
                      THEN [written EXCEPT !.ops = Append(@, FlushOp)]
                      ELSE written
       IN  IF n > 0 /\ ~writeOk /\ got.err # ""
           THEN /\ w' = [w EXCEPT ![t] = written]
                /\ ret' = [ret EXCEPT ![t].resp = Some(CloseBody(after))]
                /\ pc' = [pc EXCEPT ![t] = "done"]
           ELSE IF got.err = "EOF"
           THEN /\ w' = [w EXCEPT ![t] = flushed]
                /\ ret' = [ret EXCEPT ![t].resp = Some(CloseBody(after))]
                /\ pc' = [pc EXCEPT ![t] = "done"]
           ELSE IF got.err # ""
           THEN /\ w' = [w EXCEPT ![t] = [flushed EXCEPT !.ops = Append(@,
                           WriteOp("error while streaming response from upstream - " \o got.err, TRUE))]]
                /\ ret' = [ret EXCEPT ![t].resp = Some(CloseBody(after))]
                /\ pc' = [pc EXCEPT ![t] = "done"]
           ELSE /\ w' = [w EXCEPT ![t] = flushed]
                /\ ret' = [ret EXCEPT ![t].resp = Some(after)]
                /\ UNCHANGED pc
    /\ UNCHANGED <<cfg, rateLimiter, signer, req, proxyReq, service, signErr, calls>>

\* What a read returns beside an error other than io.EOF is not written.
StreamStep_DropsBytesOnError(t, writeOk) ==
    /\ pc[t] = "stream"
    /\ LET resp == Val(ret[t].resp)
           got == Read(resp.Body)
           after == [resp EXCEPT !.Body = got.body]
           n == IF got.err \in {"", "EOF"} THEN Len(got.data) ELSE 0
           written == IF n > 0 THEN [w[t] EXCEPT !.ops = Append(@, WriteOp(got.data, writeOk))]
                      ELSE w[t]
           flushed == IF n > 0 /\ writeOk /\ w[t].canFlush
                      THEN [written EXCEPT !.ops = Append(@, FlushOp)]
                      ELSE written
       IN  IF n > 0 /\ ~writeOk
           THEN /\ w' = [w EXCEPT ![t] = written]
                /\ ret' = [ret EXCEPT ![t].resp = Some(CloseBody(after))]
                /\ pc' = [pc EXCEPT ![t] = "done"]
           ELSE IF got.err = "EOF"
           THEN /\ w' = [w EXCEPT ![t] = flushed]
                /\ ret' = [ret EXCEPT ![t].resp = Some(CloseBody(after))]
                /\ pc' = [pc EXCEPT ![t] = "done"]
           ELSE IF got.err # ""
           THEN /\ w' = [w EXCEPT ![t] = [flushed EXCEPT !.ops = Append(@,
                           WriteOp("error while streaming response from upstream - " \o got.err, TRUE))]]
                /\ ret' = [ret EXCEPT ![t].resp = Some(CloseBody(after))]
                /\ pc' = [pc EXCEPT ![t] = "done"]
           ELSE /\ w' = [w EXCEPT ![t] = flushed]
                /\ ret' = [ret EXCEPT ![t].resp = Some(after)]
                /\ UNCHANGED pc
    /\ UNCHANGED <<cfg, rateLimiter, signer, req, proxyReq, service, signErr, calls>>

\* A read error in the loop is reported as the buffered one is: with a status
\* 500 before the diagnostic.
StreamStep_StatusOnReadError(t, writeOk) ==
    /\ pc[t] = "stream"
    /\ LET resp == Val(ret[t].resp)
           got == Read(resp.Body)
           after == [resp EXCEPT !.Body = got.body]
           n == Len(got.data)
           written == IF n > 0 THEN [w[t] EXCEPT !.ops = Append(@, WriteOp(got.data, writeOk))]
                      ELSE w[t]
           flushed == IF n > 0 /\ writeOk /\ w[t].canFlush
                      THEN [written EXCEPT !.ops = Append(@, FlushOp)]
                      ELSE written
       IN  IF n > 0 /\ ~writeOk
           THEN /\ w' = [w EXCEPT ![t] = written]
                /\ ret' = [ret EXCEPT ![t].resp = Some(CloseBody(after))]
                /\ pc' = [pc EXCEPT ![t] = "done"]
           ELSE IF got.err = "EOF"
           THEN /\ w' = [w EXCEPT ![t] = flushed]
                /\ ret' = [ret EXCEPT ![t].resp = Some(CloseBody(after))]
                /\ pc' = [pc EXCEPT ![t] = "done"]
           ELSE IF got.err # ""
           THEN /\ w' = [w EXCEPT ![t] = write(flushed, 500,
                                 "error while streaming response from upstream - " \o got.err)]
                /\ ret' = [ret EXCEPT ![t].resp = Some(CloseBody(after))]
                /\ pc' = [pc EXCEPT ![t] = "done"]
           ELSE /\ w' = [w EXCEPT ![t] = flushed]
                /\ ret' = [ret EXCEPT ![t].resp = Some(after)]
                /\ UNCHANGED pc
    /\ UNCHANGED <<cfg, rateLimiter, signer, req, proxyReq, service, signErr, calls>>

\* io.EOF does not end the loop: the next turn reads again.
StreamStep_ReadsPastEnd(t, writeOk) ==
    /\ pc[t] = "stream"
    /\ LET resp == Val(ret[t].resp)
           got == Read(resp.Body)
           after == [resp EXCEPT !.Body = got.body]
           n == Len(got.data)
           written == IF n > 0 THEN [w[t] EXCEPT !.ops = Append(@, WriteOp(got.data, writeOk))]
                      ELSE w[t]
           flushed == IF n > 0 /\ writeOk /\ w[t].canFlush
                      THEN [written EXCEPT !.ops = Append(@, FlushOp)]
                      ELSE written
       IN  IF n > 0 /\ ~writeOk
           THEN /\ w' = [w EXCEPT ![t] = written]
                /\ ret' = [ret EXCEPT ![t].resp = Some(CloseBody(after))]
                /\ pc' = [pc EXCEPT ![t] = "done"]
           ELSE IF got.err = "EOF"
           THEN /\ w' = [w EXCEPT ![t] = flushed]
                /\ ret' = [ret EXCEPT ![t].resp = Some(after)]
                /\ UNCHANGED pc
           ELSE IF got.err # ""
           THEN /\ w' = [w EXCEPT ![t] = [flushed EXCEPT !.ops = Append(@,
                           WriteOp("error while streaming response from upstream - " \o got.err, TRUE))]]
                /\ ret' = [ret EXCEPT ![t].resp = Some(CloseBody(after))]
                /\ pc' = [pc EXCEPT ![t] = "done"]
           ELSE /\ w' = [w EXCEPT ![t] = flushed]
                /\ ret' = [ret EXCEPT ![t].resp = Some(after)]
                /\ UNCHANGED pc
    /\ UNCHANGED <<cfg, rateLimiter, signer, req, proxyReq, service, signErr, calls>>

\* One turn of the loop of lines 145-167: a read, the write of what was read
\* (writeOk: whether the client accepts it) with its flush, and the exits on
\* a failed write, on io.EOF and on any other read error.
StreamStep(t, writeOk) ==
    /\ pc[t] = "stream"
    /\ LET resp == Val(ret[t].resp)
           got == Read(resp.Body)
           after == [resp EXCEPT !.Body = got.body]
           n == Len(got.data)
           written == IF n > 0 THEN [w[t] EXCEPT !.ops = Append(@, WriteOp(got.data, writeOk))]
                      ELSE w[t]
           flushed == IF n > 0 /\ writeOk /\ w[t].canFlush
                      THEN [written EXCEPT !.ops = Append(@, FlushOp)]
                      ELSE written
       IN  IF n > 0 /\ ~writeOk
           THEN /\ w' = [w EXCEPT ![t] = written]
                /\ ret' = [ret EXCEPT ![t].resp = Some(CloseBody(after))]
                /\ pc' = [pc EXCEPT ![t] = "done"]
           ELSE IF got.err = "EOF"
           THEN /\ w' = [w EXCEPT ![t] = flushed]
                /\ ret' = [ret EXCEPT ![t].resp = Some(CloseBody(after))]
                /\ pc' = [pc EXCEPT ![t] = "done"]
           ELSE IF got.err # ""
           THEN /\ w' = [w EXCEPT ![t] = [flushed EXCEPT !.ops = Append(@,
                           WriteOp("error while streaming response from upstream - " \o got.err, TRUE))]]
                /\ ret' = [ret EXCEPT ![t].resp = Some(CloseBody(after))]
                /\ pc' = [pc EXCEPT ![t] = "done"]
           ELSE /\ w' = [w EXCEPT ![t] = flushed]
                /\ ret' = [ret EXCEPT ![t].resp = Some(after)]
                /\ UNCHANGED pc
    /\ UNCHANGED <<cfg, rateLimiter, signer, req, proxyReq, service, signErr, calls>>

\* ------------------------------------------------------------- Service Resolver, by table alone
\* strings.HasSuffix
HasSuffix(s, suffix) ==
    Len(s) >= Len(suffix) /\ SubSeq(s, Len(s) - Len(suffix) + 1, Len(s)) = suffix

\* strings.Contains
Contains(s, substr) ==
    \E i \in 1..(Len(s) + 1) :
        i + Len(substr) - 1 <= Len(s) /\ SubSeq(s, i, i + Len(substr) - 1) = substr

\* strings.Replace(url, "https://", "", 1): the first occurrence is cut out.
StripScheme(url) ==
    IF ~Contains(url, "https://") THEN url
    ELSE LET i == CHOOSE j \in 1..Len(url) :
                      /\ j + 7 <= Len(url) /\ SubSeq(url, j, j + 7) = "https://"
                      /\ \A k \in 1..(j - 1) : SubSeq(url, k, k + 7) # "https://"
         IN  SubSeq(url, 1, i - 1) \o SubSeq(url, i + 8, Len(url))

\* The zero ResolvedEndpoint: what endpoint.ResolveEndpoint() returns beside
\* an error, which line 200 drops.
ZeroEndpoint == Endpoint("", "", "", "", "")

\* What the endpoints of the SDK's partitions resolve to, one representative
\* of each kind: a regional service, the global S3 endpoint, and a service
\* (iot) beside a sub-service (data.iot) whose host ends with "." and the
\* host of the first.
PartitionEndpoints ==
    {Endpoint("https://ec2.us-west-2.amazonaws.com", "v4", "us-west-2", "ec2", "aws"),
     Endpoint("https://s3.amazonaws.com", "s3", "us-east-1", "s3", "aws"),
     Endpoint("https://iot.us-west-2.amazonaws.com", "v4", "us-west-2", "iot", "aws"),
     Endpoint("https://data.iot.us-west-2.amazonaws.com", "v4", "us-west-2", "iotdata", "aws")}

\* endpoints.AwsPartition().Regions(), one of them.
Regions == {"us-west-2"}

\* The entry that init() makes up for a host of a region (lines 207-224).
RegionalEndpoint(host, region, name) == Endpoint("https://" \o host, "v4", region, name, "aws")

\* init() of lines 194-225: the table holds every resolved endpoint under its
\* URL less the scheme, then the entries made up for API Gateway, for managed
\* search and for managed Prometheus in every region, a later assignment
\* replacing an earlier one under the same key.
initServices(resolved) ==
    LET fromSDK == [h \in {StripScheme(e.URL) : e \in resolved} |->
                       CHOOSE e \in resolved : StripScheme(e.URL) = h]
        made == {RegionalEndpoint("execute-api." \o g \o ".amazonaws.com", g, "execute-api") : g \in Regions}
                \cup {RegionalEndpoint(g \o ".es.amazonaws.com", g, "es") : g \in Regions}
                \cup {RegionalEndpoint("aps." \o g \o ".amazonaws.com", g, "aps") : g \in Regions}
                \cup {RegionalEndpoint("aps-workspaces." \o g \o ".amazonaws.com", g, "aps") : g \in Regions}
    IN  [h \in {StripScheme(e.URL) : e \in made} |-> CHOOSE e \in made : StripScheme(e.URL) = h]
        @@ fromSDK

\* The test of line 229 replaced by strings.Contains(host, endpoint).
MatchingEndpoints_Contains(table, host) ==
    {endpoint \in DOMAIN table : Contains(host, endpoint)}

\* The keys of the table that pass the test of line 229 for the host.
MatchingEndpoints(table, host) ==
    {endpoint \in DOMAIN table :
        host = endpoint \/ (endpoint # "" /\ HasSuffix(host, "." \o endpoint))}

\* determineAWSServiceFromHost of lines 227-234, what it may return: the loop
\* ranges over a map, whose order of iteration Go leaves open and varies from
\* one loop to the next, and returns at the first key that passes the test;
\* so any entry whose key passes may be the one returned, and nil is
\* returned when no key passes.
determineAWSServiceFromHostBySuffix(table, host) ==
    IF MatchingEndpoints(table, host) = {} THEN {Nil}
    ELSE {Some(table[endpoint]) : endpoint \in MatchingEndpoints(table, host)}

\* One call of determineAWSServiceFromHost by the task t, for the host given.
Resolve(t, host) ==
    /\ pc[t] \in {"idle", "done"}
    /\ \E found \in determineAWSServiceFromHostBySuffix(cfg.services, host) :
          service' = [service EXCEPT ![t] = found]
    /\ calls' = [calls EXCEPT ![t] = [NoCalls(Nil) EXCEPT !.resolver = <<host>>]]
    /\ pc' = [pc EXCEPT ![t] = "done"]
    /\ UNCHANGED <<cfg, rateLimiter, signer, req, proxyReq, signErr, ret, w>>

\* ------------------------------------------------------------- inputs
Header1(k, vv) == [x \in {k} |-> vv]

\* An inbound request as net/http hands it to ServeHTTP: header keys are in
\* canonical form, body is nil or a reader.
Request(method, host, header, body, te, cl) ==
    [Method |-> method,
     URL |-> [Scheme |-> "", Host |-> "", Path |-> "/", RawQuery |-> ""],
     Host |-> host, Header |-> header, Body |-> body,
     TransferEncoding |-> te, ContentLength |-> cl]

\* A response as the Transport returns it.
Response(status, header, cl, te, reads) ==
    [StatusCode |-> status, Header |-> header, ContentLength |-> cl,
     TransferEncoding |-> te, Body |-> Reader(reads), orig |-> Nil]

TransportOk(resp) == [resp |-> Some(resp), err |-> Nil]
TransportErr(msg) == [resp |-> Nil, err |-> Some(msg)]

\* The ProxyClient that main builds when no flag is given.
DefaultConfig ==
    [StripRequestHeaders |-> <<>>, CustomHeaders |-> EmptyHeader,
     DuplicateRequestHeaders |-> <<>>, SigningNameOverride |-> "",
     SigningHostOverride |-> "", HostOverride |-> "", RegionOverride |-> "",
     LogFailedRequest |-> FALSE, SchemeOverride |-> "", RateLimiter |-> Nil,
     Debug |-> FALSE]

\* The configured rates: negative, zero and positive.
Rates == {-1, 0, 1}
Gates == {Some([rps |-> rps, burst |-> b]) : rps \in Rates, b \in 0..MaxBurst}

Hosts == {"ec2.us-west-2.amazonaws.com", "s3.amazonaws.com", "s3.eu-central-1.amazonaws.com",
          "sdb.amazonaws.com", "badservice.host", "abc.execute-api.us-west-2.amazonaws.com"}

ReadOk(data) == [data |-> data, err |-> ""]
ReadErr(data, err) == [data |-> data, err |-> err]

\* Inbound bodies: none, one that reads to its end, one whose read fails.
Bodies == {Nil, Some(Reader(<<ReadOk("ab")>>)),
           Some(Reader(<<ReadErr("a", "unexpected EOF")>>))}

Credentials == {Nil, Some("NoCredentialProviders: no valid providers in chain")}

\* What the Transport may answer: a failure, a response of known length, a
\* failed chunked response.
Outcomes ==
    {TransportErr("dial tcp: connection refused"),
     TransportOk(Response(200, Header1("Content-Type", <<"text/plain">>), 5, <<>>,
                          <<ReadOk("hello")>>)),
     TransportOk(Response(503, Header1("Retry-After", <<"1">>), -1, <<"chunked">>,
                          <<ReadOk("slow"), ReadErr("down", "EOF")>>))}

\* ------------------------------------------------------------- specifications
\* The steps of the task t inside Do, on the given inputs.
Pipeline(t, Inbound, Flushers, Creds, Answers) ==
    \/ \E r \in Inbound, canFlush \in Flushers : DoAdmit(t, r, canFlush)
    \/ DoPrepare(t)
    \/ SignEnter(t)
    \/ \E cred \in Creds : SignCall(t, cred)
    \/ SignReturn(t)
    \/ \E out \in Answers : DoDispatch(t, out)

\* All the steps of the task t: Do, then the relay of its result.
Serve(t, Inbound, Flushers, Creds, Answers) ==
    \/ Pipeline(t, Inbound, Flushers, Creds, Answers)
    \/ ServeError(t)
    \/ ServeRelay(t)
    \/ \E writeOk \in BOOLEAN : StreamStep(t, writeOk)

\* One task at a time: every override pair with and without a host override,
\* every limiter, every host.
Configs ==
    {[DefaultConfig EXCEPT !.SigningNameOverride = n, !.RegionOverride = g,
                           !.HostOverride = h, !.StripRequestHeaders = <<"accept">>,
                           !.RateLimiter = l]
        : n \in {"", "ec2"}, g \in {"", "us-west-2"}, h \in {"", "host.override"},
          l \in {Nil} \cup Gates}

Requests ==
    {Request("GET", h, Header1("Accept", <<"*/*">>) @@ Header1("User-Agent", <<"curl/8.0", "probe">>),
             b, <<>>, IF IsNil(b) THEN 0 ELSE 2)
        : h \in Hosts, b \in Bodies}
    \cup {Request("BAD METHOD", "ec2.us-west-2.amazonaws.com", Header1("Accept", <<"*/*">>),
                  Nil, <<>>, 0)}

Init == InitWith(Configs)

Next == Serve(1, Requests, {TRUE}, Credentials, Outcomes) \/ Refill

Spec == Init /\ [][Next]_vars

\* Header policy, one task: what is stripped, duplicated and added, against
\* inbound headers that collide with the signature's and with each other.
Opt(k, vv) == IF vv = <<>> THEN EmptyHeader ELSE Header1(k, vv)

HeaderConfigs ==
    {[DefaultConfig EXCEPT !.StripRequestHeaders = s, !.DuplicateRequestHeaders = d,
                           !.CustomHeaders = c]
        : s \in {<<>>, <<"foo">>},
          d \in {<<>>, <<"foo">>, <<"Authorization">>},
          c \in {EmptyHeader,
                 Header1("Authorization", <<"Basic custom">>),
                 Opt("X-Custom", <<"c1", "c2">>) @@ Opt("X-Original-Foo", <<"custom">>)}}

HeaderRequests ==
    {Request("GET", h, Opt("Authorization", a) @@ Opt("Foo", f) @@ Opt("X-Original-Foo", o),
             Nil, <<>>, 0)
        : h \in {"ec2.us-west-2.amazonaws.com", "s3.eu-central-1.amazonaws.com", "s3.amazonaws.com"},
          a \in {<<>>, <<"Bearer inbound">>},
          f \in {<<>>, <<"">>, <<"v1", "v2">>},
          o \in {<<>>, <<"old">>}}

InitHeaders == InitWith(HeaderConfigs)

NextHeaders == Serve(1, HeaderRequests, {TRUE}, {Nil}, Outcomes)

SpecHeaders == InitHeaders /\ [][NextHeaders]_vars

\* Concurrent signing: NumTasks tasks share the ProxyClient and its Signer and
\* serve requests for an S3 host and for another service, all of which are
\* signed, sent and answered.
ConcRequests ==
    {Request("GET", h, EmptyHeader, Nil, <<>>, 0)
        : h \in {"ec2.us-west-2.amazonaws.com", "s3.amazonaws.com"}}

ConcOutcomes == {TransportOk(Response(200, EmptyHeader, 2, <<>>, <<ReadOk("ok")>>))}

InitConc == InitWith({DefaultConfig})

NextConc ==
    \E t \in Tasks :
        \/ Pipeline(t, ConcRequests, {TRUE}, {Nil}, ConcOutcomes)
        \/ ServeRelay(t)

SpecConc == InitConc /\ [][NextConc]_vars

\* Concurrent admission: NumTasks tasks share the ProxyClient and its
\* RateLimiter, constructed with every rate and burst.
GateConfigs == {[DefaultConfig EXCEPT !.RateLimiter = l] : l \in Gates}

GateRequests == {Request("GET", "ec2.us-west-2.amazonaws.com", EmptyHeader, Nil, <<>>, 0)}

InitGate == InitWith(GateConfigs)

NextGate ==
    \/ \E t \in Tasks :
          \/ Pipeline(t, GateRequests, {TRUE}, {Nil}, ConcOutcomes)
          \/ ServeError(t)
          \/ ServeRelay(t)
    \/ Refill

SpecGate == InitGate /\ [][NextGate]_vars

\* The relay, one task: every way the Transport answers (a failure, bodies of
\* known length, chunked bodies and bodies of unknown length, with empty reads
\* and with reads that fail), to clients that can and cannot flush and that
\* accept or refuse a write, with and without the logging of failed requests
\* and debug tracing.
RelayConfigs ==
    {[DefaultConfig EXCEPT !.LogFailedRequest = l, !.Debug = d] : l \in BOOLEAN, d \in BOOLEAN}

RelayRequests == {Request("GET", "ec2.us-west-2.amazonaws.com", EmptyHeader, Nil, <<>>, 0)}

RelayHeader == Header1("Content-Type", <<"text/plain">>) @@ Header1("Set-Cookie", <<"a=1", "b=2">>)

RelayOutcomes ==
    {TransportErr("dial tcp: connection refused"),
     TransportOk(Response(200, RelayHeader, 5, <<>>, <<ReadOk("he"), ReadOk("llo")>>)),
     TransportOk(Response(204, EmptyHeader, 0, <<>>, <<>>)),
     TransportOk(Response(404, RelayHeader, 9, <<"identity">>, <<ReadOk("not found")>>)),
     TransportOk(Response(200, EmptyHeader, 5, <<>>, <<ReadOk("he"), ReadErr("", "unexpected EOF")>>)),
     TransportOk(Response(500, EmptyHeader, 4, <<>>, <<ReadOk("oo"), ReadErr("", "unexpected EOF")>>)),
     TransportOk(Response(200, RelayHeader @@ Header1("Content-Length", <<"3">>), 3, <<>>,
                          <<ReadErr("ab", "unexpected EOF")>>)),
     TransportOk(Response(200, RelayHeader, -1, <<"chunked">>,
                          <<ReadOk("a"), ReadOk(""), ReadOk("bc"), ReadErr("d", "EOF")>>)),
     TransportOk(Response(200, EmptyHeader, -1, <<>>, <<ReadOk("xy")>>)),
     TransportOk(Response(200, EmptyHeader, -1, <<>>,
                          <<ReadOk(""), ReadOk(""), ReadErr("z", "EOF"), ReadOk("never")>>)),
     TransportOk(Response(200, EmptyHeader, -1, <<>>,
                          <<ReadOk("up"), ReadErr("da", "connection reset by peer"), ReadOk("ta")>>)),
     TransportOk(Response(200, EmptyHeader, -1, <<"chunked">>, <<>>)),
     TransportOk(Response(503, RelayHeader, -1, <<"chunked">>,
                          <<ReadOk("slow"), ReadErr("down", "connection reset by peer")>>))}

InitRelay == InitWith(RelayConfigs)

NextRelay == Serve(1, RelayRequests, BOOLEAN, {Nil}, RelayOutcomes)

SpecRelay == InitRelay /\ [][NextRelay]_vars

\* Request bodies and framing, one task: requests with and without a body, of
\* stated and of unknown length, not chunked, chunked and with further codings,
\* for a host of each signing method; all are signed, sent and answered.
Framings ==
    {[body |-> Nil, cl |-> 0, te |-> <<>>],
     [body |-> Some(Reader(<<>>)), cl |-> 0, te |-> <<>>],
     [body |-> Some(Reader(<<ReadOk("ab")>>)), cl |-> 2, te |-> <<>>],
     [body |-> Some(Reader(<<ReadOk("a"), ReadOk("b")>>)), cl |-> 2, te |-> <<"identity">>],
     [body |-> Some(Reader(<<ReadOk("ab")>>)), cl |-> -1, te |-> <<>>],
     [body |-> Some(Reader(<<ReadOk("a"), ReadErr("b", "EOF")>>)), cl |-> -1, te |-> <<"chunked">>],
     [body |-> Some(Reader(<<ReadOk("ab")>>)), cl |-> 5, te |-> <<"chunked">>],
     [body |-> Some(Reader(<<ReadOk("ab")>>)), cl |-> 0, te |-> <<"chunked", "gzip">>],
     [body |-> Some(Reader(<<ReadOk("ab")>>)), cl |-> 2, te |-> <<"gzip">>]}

BodyRequests ==
    {Request("PUT", h, EmptyHeader, f.body, f.te, f.cl)
        : h \in {"ec2.us-west-2.amazonaws.com", "s3.amazonaws.com", "s3.eu-central-1.amazonaws.com"},
          f \in Framings}

InitBody == InitWith({DefaultConfig})

NextBody == Pipeline(1, BodyRequests, {TRUE}, {Nil}, ConcOutcomes) \/ ServeRelay(1)

SpecBody == InitBody /\ [][NextBody]_vars

\* Resolution and signing, one task: every override of the target, of the
\* scheme, of the signed Host and of the endpoint, against hosts that match
\* one pattern, both patterns, a pattern but for one label, a table key, or
\* nothing.
ResolveConfigs ==
    {[DefaultConfig EXCEPT !.HostOverride = h, !.SchemeOverride = s,
                           !.SigningHostOverride = sh,
                           !.SigningNameOverride = n[1], !.RegionOverride = n[2]]
        : h \in {"", "ec2.us-west-2.amazonaws.com"}, s \in {"", "http"},
          sh \in {"", "sign.example.com"},
          n \in {<<"", "">>, <<"es", "us-east-1">>, <<"es", "">>}}

ResolveHosts ==
    Hosts \cup {"test-abc.us-west-2.es.amazonaws.com",
                "abc.execute-api.es.amazonaws.com",
                "execute-api.us-west-2.amazonaws.com",
                "a.b.execute-api.us-west-2.amazonaws.com",
                ".us-west-2.es.amazonaws.com",
                "abc.execute-api.us-west-2.amazonaws.com.cn"}

ResolveRequests == {Request("GET", h, EmptyHeader, Nil, <<>>, 0) : h \in ResolveHosts}

InitResolve == InitWith(ResolveConfigs)

NextResolve ==
    \/ Pipeline(1, ResolveRequests, {TRUE}, Credentials, ConcOutcomes)
    \/ ServeError(1)
    \/ ServeRelay(1)

SpecResolve == InitResolve /\ [][NextResolve]_vars

\* The handler with the health check, one task: requests for "/" and for
\* "/health", with and without a body, for a host that resolves and one that
\* does not, with and without a limiter.
HealthConfigs ==
    {[DefaultConfig EXCEPT !.RateLimiter = l] : l \in {Nil, Some([rps |-> 1, burst |-> 1])}}

HealthRequests ==
    {[Request("GET", h, EmptyHeader, b, <<>>, IF IsNil(b) THEN 0 ELSE 2) EXCEPT !.URL.Path = path]
        : h \in {"ec2.us-west-2.amazonaws.com", "badservice.host"},
          path \in {"/", "/health"}, b \in Bodies}

InitHealth == InitWith(HealthConfigs)

NextHealth ==
    \/ Pipeline(1, HealthRequests, {TRUE}, {Nil}, Outcomes)
    \/ ServeHTTPHealth(1)

SpecHealth == InitHealth /\ [][NextHealth]_vars

\* Resolution by the table alone, NumTasks callers: the table as init()
\* builds it, with and without an endpoint whose resolution failed, against
\* hosts that are a key, end with "." and a key, are a key and end with "."
\* and another, end with a key without the dot, hold a key inside, or are
\* empty.
LookupConfigs ==
    {[services |-> initServices(resolved)] @@ DefaultConfig
        : resolved \in {PartitionEndpoints, PartitionEndpoints \cup {ZeroEndpoint}}}

LookupHosts ==
    {"ec2.us-west-2.amazonaws.com", "data.iot.us-west-2.amazonaws.com",
     "bucket.s3.amazonaws.com", "abc.execute-api.us-west-2.amazonaws.com",
     "xs3.amazonaws.com", "s3.amazonaws.com.example.org", "badservice.host",
     "", "example.org."}

InitLookup == InitWith(LookupConfigs)

NextLookup == \E t \in Tasks, host \in LookupHosts : Resolve(t, host)

SpecLookup == InitLookup /\ [][NextLookup]_vars

\* main of part_004 from line 155 on.  The first http.ListenAndServe (lines
\* 155-171) is handed a ProxyClient built without a RateLimiter and serves
\* until it fails; log.Fatal then ends the process.  NewRateLimiter (line
\* 173) and the second http.ListenAndServe (lines 175-192), whose ProxyClient
\* carries the RateLimiter, stand behind that log.Fatal: control never gets
\* there, so no step of the model builds or serves them.  cfg.RateLimiter
\* holds the flags --rate-limit and --burst-limit as given.
InitMain ==
    /\ cfg \in GateConfigs
    /\ rateLimiter = Nil
    /\ signer = [DisableURIPathEscaping |-> FALSE]
    /\ pc = [t \in Tasks |-> "idle"]
    /\ req = [t \in Tasks |-> Nil]
    /\ proxyReq = [t \in Tasks |-> Nil]
    /\ service = [t \in Tasks |-> Nil]
    /\ signErr = [t \in Tasks |-> Nil]
    /\ ret = [t \in Tasks |-> NoReturn]
    /\ w = [t \in Tasks |-> NewWriter(TRUE)]
    /\ calls = [t \in Tasks |-> NoCalls(Nil)]

\* Lines 155 and 171: http.ListenAndServe returns its error and log.Fatal
\* exits the process, whatever its requests are doing.
ListenAndServeFails ==
    /\ \E t \in Tasks : pc[t] # "exit"
    /\ pc' = [t \in Tasks |-> "exit"]
    /\ UNCHANGED <<cfg, rateLimiter, signer, req, proxyReq, service, signErr, ret, w, calls>>

NextMain ==
    \/ \E t \in Tasks :
          \/ Pipeline(t, GateRequests, {TRUE}, {Nil},
                      ConcOutcomes \cup {TransportErr("dial tcp: connection refused")})
          \/ ServeError(t)
          \/ ServeRelay(t)
    \/ ListenAndServeFails

SpecMain == InitMain /\ [][NextMain]_vars

\* The relay with its handler running on: the goroutine of ServeHTTP is
\* scheduled again and again, and a Read or a Write that it calls returns, so
\* a turn of the streaming loop that can be taken is taken in the end.
SpecRelayFair == SpecRelay /\ WF_vars(\E writeOk \in BOOLEAN : StreamStep(1, writeOk))

\* ------------------------------------------------------------- properties
\* Do has returned to ServeHTTP for the current request of t.
Returned(t) == pc[t] \in {"serve", "stream", "done"}

UseOverride == cfg.SigningNameOverride # "" /\ cfg.RegionOverride # ""

\* C3: with one task, the signer's DisableURIPathEscaping is true only inside
\* a sign call for the signing name "s3" (between its switch-off and its
\* return); at every other moment, and so after every return of sign whatever
\* its outcome, it is false.
C3_EscapingOffOnlyInsideS3Sign ==
    signer.DisableURIPathEscaping =>
        /\ pc[1] \in {"signCall", "signReturn"}
        /\ Val(service[1]).SigningName = "s3"

\* A sign call for "s3" has failed and returned, and escaping is back on.
C3_Witness ==
    /\ pc[1] = "serve"
    /\ ~IsNil(service[1]) /\ Val(service[1]).SigningName = "s3"
    /\ ~IsNil(signErr[1])
    /\ Len(calls[1].signer) = 1
    /\ ~signer.DisableURIPathEscaping

\* C4: when both overrides are set the Resolver is never asked, the endpoint
\* signed for is made of the overrides with method "v4", and Do never ends
\* with the unresolved-service error, whatever the host.
C4_OverridesBypassResolver ==
    UseOverride =>
        \A t \in Tasks :
            /\ calls[t].resolver = <<>>
            /\ ~IsNil(service[t]) =>
                   /\ Val(service[t]).SigningName = cfg.SigningNameOverride
                   /\ Val(service[t]).SigningRegion = cfg.RegionOverride
                   /\ Val(service[t]).SigningMethod = "v4"
            /\ (Returned(t) /\ ~IsNil(ret[t].err)) =>
                   Val(ret[t].err) # "unable to determine service from host: " \o Val(req[t]).Host

\* A host the Resolver does not know was signed for ec2/us-west-2 and served.
C4_Witness ==
    /\ UseOverride
    /\ pc[1] = "done"
    /\ Val(req[1]).Host = "badservice.host"
    /\ IsNil(determineAWSServiceFromHost("badservice.host"))
    /\ IsNil(ret[1].err)
    /\ Len(calls[1].signer) = 1 /\ calls[1].signer[1].name = "ec2"

\* C5: when the Resolver, asked because the overrides are not both set, finds
\* nothing for the inbound host, Do returns no response and the error
\* "unable to determine service from host: <inbound host>", and neither the
\* Signing Service nor the Transport is invoked for that request.
C5_UnresolvedHostFails ==
    \A t \in Tasks :
        (~IsNil(req[t]) /\ calls[t].resolver # <<>> /\ IsNil(service[t])) =>
            /\ ~UseOverride
            /\ calls[t].resolver = <<calls[t].inbound[1].Host>>
            /\ Returned(t)
            /\ ret[t] = [resp |-> Nil,
                         err |-> Some("unable to determine service from host: " \o
                                      calls[t].inbound[1].Host)]
            /\ calls[t].signer = <<>>
            /\ calls[t].transport = <<>>

\* badservice.host was turned away although a host override is configured.
C5_Witness ==
    /\ pc[1] = "done"
    /\ cfg.HostOverride = "host.override"
    /\ Val(req[1]).Host = "badservice.host"
    /\ ret[1].err = Some("unable to determine service from host: badservice.host")

\* Line 85 of sign: the error for an endpoint svc whose signing method is
\* none of "v4", "s3v4" and "s3".
UnsupportedMethodError(svc) ==
    "unable to sign with specified signing method " \o svc.SigningMethod \o
    " for service " \o svc.SigningName

\* C6: when the signing step fails, with the Signing Service's error or, for a
\* method that is none of "v4", "s3v4", "s3", with the unsupported-method
\* error, Do returns exactly that error and no response, and the Transport is
\* not invoked.
C6_SigningFailureIsFinal ==
    \A t \in Tasks :
        /\ (pc[t] \in {"signReturn", "dispatch"} \cup {"serve", "stream", "done"}
              /\ ~IsNil(service[t])
              /\ Val(service[t]).SigningMethod \notin {"v4", "s3v4", "s3"}) =>
                signErr[t] = Some(UnsupportedMethodError(Val(service[t])))
        /\ (Len(calls[t].signer) = 1 /\ ~IsNil(calls[t].signer[1].err)) =>
                signErr[t] = calls[t].signer[1].err
        /\ ~IsNil(signErr[t]) =>
                /\ calls[t].transport = <<>>
                /\ pc[t] \in {"signReturn", "serve", "done"}
                /\ Returned(t) => ret[t] = [resp |-> Nil, err |-> signErr[t]]

\* A request for sdb (signature version "v2" only) ended with the
\* unsupported-method error.
C6_Witness ==
    /\ pc[1] = "done"
    /\ ret[1].err = Some("unable to sign with specified signing method v2 for service sdb")

\* C7: the Transport is invoked at most once per request, and when that call
\* fails Do returns the Transport's error itself and no response.
C7_TransportOnceErrorVerbatim ==
    \A t \in Tasks :
        /\ Len(calls[t].transport) <= 1
        /\ (Len(calls[t].transport) = 1 /\ ~IsNil(calls[t].transport[1].out.err)) =>
                /\ Returned(t)
                /\ ret[t] = [resp |-> Nil, err |-> calls[t].transport[1].out.err]

\* The one Transport call failed and Do has returned.
C7_Witness ==
    /\ pc[1] = "serve"
    /\ Len(calls[1].transport) = 1
    /\ calls[1].transport[1].out.err = Some("dial tcp: connection refused")
    /\ ret[1].err = Some("dial tcp: connection refused")

\* C8: when Allow denies the request, Do has returned "rate limit exceeded" in
\* that same step: the inbound request is as it came in (body unread and
\* unclosed, headers untouched), no outbound request exists, and the Resolver,
\* the Signing Service and the Transport were not invoked.
C8_DenialIsImmediate ==
    \A t \in Tasks :
        calls[t].allow = <<FALSE>> =>
            /\ Returned(t)
            /\ ret[t] = [resp |-> Nil, err |-> Some("rate limit exceeded")]
            /\ req[t] = calls[t].inbound
            /\ IsNil(proxyReq[t])
            /\ IsNil(service[t])
            /\ calls[t].resolver = <<>>
            /\ calls[t].signer = <<>>
            /\ calls[t].transport = <<>>

\* A request with a body and a header to strip was denied.
C8_Witness ==
    /\ pc[1] = "done"
    /\ calls[1].allow = <<FALSE>>
    /\ ~IsNil(Val(req[1]).Body)
    /\ HeaderHas(Val(req[1]).Header, "Accept")
    /\ cfg.StripRequestHeaders = <<"accept">>

\* C10: whenever Do returned an error, ServeHTTP ends having written status
\* 502 and then the body "unable to proxy request - <error>", nothing else,
\* with no header copied to the client and no flush.
C10_ErrorBranch ==
    \A t \in Tasks :
        (pc[t] = "done" /\ ~IsNil(ret[t].err)) =>
            /\ IsNil(ret[t].resp)
            /\ w[t].ops = <<WriteHeaderOp(502),
                            WriteOp("unable to proxy request - " \o Val(ret[t].err), TRUE)>>
            /\ w[t].Header = EmptyHeader

\* A Transport failure reached the client as a 502.
C10_Witness ==
    /\ pc[1] = "done"
    /\ ret[1].err = Some("dial tcp: connection refused")
    /\ w[1].ops = <<WriteHeaderOp(502),
                    WriteOp("unable to proxy request - dial tcp: connection refused", TRUE)>>

\* C1: a request dispatched after header signing (method "v4" or "s3v4")
\* carries every header the signing step set with exactly the values the
\* signing step gave it, whatever the inbound request and the custom headers
\* hold under the same name.
C1_SignedHeadersDispatchedIntact ==
    \A t \in Tasks :
        (Len(calls[t].transport) = 1 /\ Len(calls[t].signer) = 1
            /\ calls[t].signer[1].op = "Sign") =>
            LET signed == calls[t].signer[1].header
                sent == calls[t].transport[1].req.Header
            IN  /\ DOMAIN signed = {"Authorization", "X-Amz-Date"}
                /\ \A k \in DOMAIN signed : HeaderHas(sent, k) /\ sent[k] = signed[k]

\* A signed request went out with the signature although the inbound request
\* has an Authorization header of its own.
C1_Witness ==
    /\ Len(calls[1].transport) = 1
    /\ Len(calls[1].signer) = 1 /\ calls[1].signer[1].op = "Sign"
    /\ HeaderHas(calls[1].inbound[1].Header, "Authorization")
    /\ calls[1].inbound[1].Header["Authorization"] = <<"Bearer inbound">>
    /\ Len(calls[1].transport[1].req.Header["Authorization"]) = 1
    /\ calls[1].transport[1].req.Header["Authorization"] = calls[1].signer[1].header["Authorization"]

\* C2: under every interleaving of the tasks, every call of the Signing
\* Service for a signing name other than "s3" runs with URI-path escaping on
\* and every call for "s3" runs with it off.
C2_EscapingFollowsOwnRequest ==
    \A t \in Tasks :
        \A i \in 1..Len(calls[t].signer) :
            calls[t].signer[i].escaped = (calls[t].signer[i].name # "s3")

\* C9: with a RateLimiter constructed with a rate of zero or less, whatever
\* its burst, every Allow call of every task returns true: no request is
\* denied.
C9_DisabledGateAllowsAll ==
    (~IsNil(cfg.RateLimiter) /\ Val(cfg.RateLimiter).rps <= 0) =>
        \A t \in Tasks :
            /\ calls[t].allow \in {<<>>, <<TRUE>>}
            /\ ret[t].err # Some("rate limit exceeded")

\* Every task is past an Allow call of a gate built with rate 0 and burst 0.
C9_Witness ==
    /\ cfg.RateLimiter = Some([rps |-> 0, burst |-> 0])
    /\ \A t \in Tasks : calls[t].allow = <<TRUE>> /\ pc[t] = "done"

\* The response as the Transport returned it for the current request of t.
Upstream(t) == Val(calls[t].transport[1].out.resp)

\* ServeHTTP has ended for a request of t that Do answered with a response.
Relayed(t) == pc[t] = "done" /\ IsNil(ret[t].err) /\ Len(calls[t].transport) = 1

\* Line 113 of ServeHTTP: the mode of delivery.
Buffered(resp) == ~chunked(resp.TransferEncoding) /\ resp.ContentLength >= 0

\* C11 as stated: every response of known length that is not chunked ends as
\* one status write of the upstream status and one body write of the whole
\* body, with no flush and nothing left to read.
C11_BufferedOneWrite ==
    \A t \in Tasks :
        (Relayed(t) /\ Buffered(Upstream(t))) =>
            /\ w[t].ops = <<WriteHeaderOp(Upstream(t).StatusCode),
                            WriteOp(ReadAll(Upstream(t).Body).data, TRUE)>>
            /\ ReadAll(Val(ret[t].resp).Body).data = ""

\* C11, amended: every response of known length that is not chunked and whose
\* body is read to its end without an error ends as one status write of the
\* upstream status and one body write of the whole body, with no flush and
\* nothing left to read.
C11_BufferedOneWriteWhenRead ==
    \A t \in Tasks :
        (Relayed(t) /\ Buffered(Upstream(t)) /\ ReadAll(Upstream(t).Body).err = "") =>
            /\ w[t].ops = <<WriteHeaderOp(Upstream(t).StatusCode),
                            WriteOp(ReadAll(Upstream(t).Body).data, TRUE)>>
            /\ ReadAll(Val(ret[t].resp).Body).data = ""

\* A body of five bytes that arrived in two reads went out in one write.
C11_Witness ==
    /\ Relayed(1) /\ Buffered(Upstream(1))
    /\ Len(Upstream(1).Body.reads) = 2
    /\ w[1].ops = <<WriteHeaderOp(200), WriteOp("hello", TRUE)>>

\* What the loop of lines 145-157 puts out for the first n reads of a body
\* when every write succeeds and the client can flush: for every read that
\* returned bytes, one write of those bytes and then one flush.
RECURSIVE StreamedOps(_, _)
StreamedOps(reads, n) ==
    IF n = 0 THEN <<>>
    ELSE StreamedOps(reads, n - 1) \o
         (IF reads[n].data # "" THEN <<WriteOp(reads[n].data, TRUE), FlushOp>> ELSE <<>>)

\* The response of t is being streamed or was streamed.
Streaming(t) ==
    /\ pc[t] \in {"stream", "done"}
    /\ ~IsNil(ret[t].resp)
    /\ ~Buffered(Val(ret[t].resp))

\* No read of the body of t so far failed, and no write.
NoFailure(t) ==
    LET body == Val(ret[t].resp).Body
    IN  /\ \A i \in 1..body.pos : body.reads[i].err \in {"", "EOF"}
        /\ \A i \in 1..Len(w[t].ops) : w[t].ops[i].ok

\* C12: while and after a response is streamed to a client that can flush,
\* with no read or write failure, the client has seen the status and then,
\* for each read so far that returned bytes and in the order of the reads, one
\* write of exactly those bytes followed at once by one flush; a read that
\* returned no bytes left no trace.
C12_StreamWriteFlushPerRead ==
    \A t \in Tasks :
        (Streaming(t) /\ w[t].canFlush /\ NoFailure(t)) =>
            LET resp == Val(ret[t].resp)
            IN  w[t].ops = <<WriteHeaderOp(resp.StatusCode)>> \o
                           StreamedOps(resp.Body.reads, resp.Body.pos)

\* Four reads, the second of them empty and the last ending the stream, were
\* relayed as three writes with three flushes.
C12_Witness ==
    /\ Streaming(1) /\ pc[1] = "done" /\ w[1].canFlush
    /\ Val(ret[1].resp).Body.pos = 4
    /\ w[1].ops = <<WriteHeaderOp(200), WriteOp("a", TRUE), FlushOp, WriteOp("bc", TRUE), FlushOp,
                    WriteOp("d", TRUE), FlushOp>>

\* The bytes the client was sent: the data of the writes, in their order.
RECURSIVE BodyWritten(_, _)
BodyWritten(ops, n) ==
    IF n = 0 THEN ""
    ELSE BodyWritten(ops, n - 1) \o (IF ops[n].op = "Write" THEN ops[n].data ELSE "")

\* The status writes among the operations on the client's writer.
StatusWrites(ops) == {i \in 1..Len(ops) : ops[i].op = "WriteHeader"}

\* C13: when a response was relayed, buffered or streamed, and neither a read
\* of the upstream body nor a write to the client failed, the client was sent
\* the upstream status (once, before anything else), every upstream header
\* with all its values, and as body exactly the bytes of the upstream body in
\* their order.
C13_ResponsePassedThrough ==
    \A t \in Tasks :
        (/\ Relayed(t)
         /\ ReadAll(Upstream(t).Body).err = ""
         /\ \A i \in 1..Len(w[t].ops) : w[t].ops[i].ok) =>
            /\ StatusWrites(w[t].ops) = {1}
            /\ w[t].ops[1] = WriteHeaderOp(Upstream(t).StatusCode)
            /\ \A k \in DOMAIN Upstream(t).Header :
                   HeaderHas(w[t].Header, k) /\ w[t].Header[k] = Upstream(t).Header[k]
            /\ BodyWritten(w[t].ops, Len(w[t].ops)) = ReadAll(Upstream(t).Body).data

\* A chunked response with a header of two values was streamed in full.
C13_Witness ==
    /\ Relayed(1) /\ ~Buffered(Upstream(1))
    /\ w[1].Header = RelayHeader
    /\ Len(RelayHeader["Set-Cookie"]) = 2
    /\ w[1].ops[1] = WriteHeaderOp(200)
    /\ BodyWritten(w[1].ops, Len(w[1].ops)) = "abcd"

\* The writes to the client that failed.
FailedWrites(ops) == {i \in 1..Len(ops) : ~ops[i].ok}

\* The reads among the first n of a body that returned bytes.
NonEmptyReads(reads, n) == {i \in 1..n : reads[i].data # ""}

\* C14: in streamed mode a failed write is the last thing ServeHTTP does to
\* the client and the read that fed it is the last read of the upstream body:
\* ServeHTTP has ended, nothing was written, flushed or read after it, and the
\* one status written is the upstream status.
C14_WriteFailureEndsStream ==
    \A t \in Tasks :
        (Streaming(t) /\ FailedWrites(w[t].ops) # {}) =>
            LET resp == Val(ret[t].resp)
                ops == w[t].ops
            IN  /\ pc[t] = "done"
                /\ FailedWrites(ops) = {Len(ops)}
                /\ StatusWrites(ops) = {1}
                /\ ops[1] = WriteHeaderOp(resp.StatusCode)
                /\ resp.Body.pos \in NonEmptyReads(resp.Body.reads, resp.Body.pos)
                /\ ops[Len(ops)] = WriteOp(resp.Body.reads[resp.Body.pos].data, FALSE)
                /\ Cardinality({i \in 1..Len(ops) : ops[i].op = "Write"}) =
                       Cardinality(NonEmptyReads(resp.Body.reads, resp.Body.pos))

\* The write of the third read, which returned bytes and no error, failed
\* after the write of the first read had succeeded; more reads remained.
C14_Witness ==
    /\ Streaming(1) /\ pc[1] = "done"
    /\ w[1].ops = <<WriteHeaderOp(200), WriteOp("a", TRUE), FlushOp, WriteOp("bc", FALSE)>>
    /\ Val(ret[1].resp).Body.pos = 3
    /\ Val(ret[1].resp).Body.reads[3].err = ""
    /\ Len(Val(ret[1].resp).Body.reads) = 4

\* The request of t as it came in, and as the Transport was handed it.
Inbound(t) == calls[t].inbound[1]
Dispatched(t) == calls[t].transport[1].req

\* RFC 2616, section 4.4, as the comment of lines 106-114 quotes it: the
\* message uses a transfer coding when its Transfer-Encoding has any value
\* other than "identity".
UsesTransferCoding(r) ==
    \E i \in 1..Len(r.TransferEncoding) : r.TransferEncoding[i] # "identity"

\* The bytes of a request body, nil counting as empty.
BodyBytes(body) == IF IsNil(body) THEN "" ELSE ReadAll(Val(body)).data

\* C15: a dispatched request whose inbound request uses no transfer coding
\* has the transfer-encoding <<"identity">> and, when the inbound request
\* states a content-length (zero included), that content-length.
C15_UnchunkedLengthAndIdentity ==
    \A t \in Tasks :
        (Len(calls[t].transport) = 1 /\ ~UsesTransferCoding(Inbound(t))) =>
            /\ Dispatched(t).TransferEncoding = <<"identity">>
            /\ Inbound(t).ContentLength >= 0 =>
                   Dispatched(t).ContentLength = Inbound(t).ContentLength

\* A request without a body that states the length 0 went out with length 0
\* and "identity".
C15_Witness ==
    /\ Len(calls[1].transport) = 1
    /\ Inbound(1).TransferEncoding = <<>> /\ Inbound(1).ContentLength = 0
    /\ Dispatched(1).ContentLength = 0
    /\ Dispatched(1).TransferEncoding = <<"identity">>

\* C16: a dispatched request whose inbound request uses a transfer coding
\* lists the inbound codings unchanged, and its content-length is the number
\* of bytes of the body, whatever content-length the inbound request states.
C16_ChunkedEncodingPassedThrough ==
    \A t \in Tasks :
        (Len(calls[t].transport) = 1 /\ UsesTransferCoding(Inbound(t))) =>
            /\ Dispatched(t).TransferEncoding = Inbound(t).TransferEncoding
            /\ Dispatched(t).ContentLength = Len(BodyBytes(Inbound(t).Body))

\* A chunked request that states the length 5 for a body of two bytes went
\* out chunked with length 2.
C16_Witness ==
    /\ Len(calls[1].transport) = 1
    /\ Inbound(1).TransferEncoding = <<"chunked">> /\ Inbound(1).ContentLength = 5
    /\ Dispatched(1).TransferEncoding = <<"chunked">>
    /\ Dispatched(1).ContentLength = 2

\* C17: the body of every dispatched request, read from where it stands when
\* the Transport is handed it, yields exactly the bytes of the inbound body,
\* whichever call of the Signing Service signed the request.
C17_OutboundBodyComplete ==
    \A t \in Tasks :
        Len(calls[t].transport) = 1 =>
            BodyBytes(Dispatched(t).Body) = BodyBytes(Inbound(t).Body)

\* What the caller of Do gets when it reads the body of resp to its end: the
\* bytes, and the error the reading stops with ("" for end-of-stream).
CallerReads(resp) == [data |-> ReadAll(resp.Body).data, err |-> ReadAll(resp.Body).err]

\* The same ProxyClient with failed-request logging and debug tracing off.
Quiet(c) == [c EXCEPT !.LogFailedRequest = FALSE, !.Debug = FALSE]

\* C18: when Do returns a response of status 400 or more, what its caller
\* reads from the body, bytes and final error, is what it reads from the
\* response Do returns for the same Transport answer with failed-request
\* logging and debug tracing off.
C18_LoggingInvisibleToCaller ==
    \A t \in Tasks :
        (pc[t] = "serve" /\ ~IsNil(ret[t].resp) /\ Val(ret[t].resp).StatusCode >= 400) =>
            CallerReads(Val(ret[t].resp)) =
                CallerReads(Val(Respond(Quiet(cfg), calls[t].transport[1].out).resp))

\* The canonical names of the headers configured in a list.
Named(names) == {CanonicalMIMEHeaderKey(names[i]) : i \in 1..Len(names)}

\* The values under the key k of a header map, none when the key is absent.
Values(h, k) == IF HeaderHas(h, k) THEN h[k] ELSE <<>>

\* What the two merges of lines 234 and 237 alone bring under the key k: the
\* inbound values unless the header is stripped, else the custom values.
PassedThrough(t, k) ==
    IF HeaderHas(Inbound(t).Header, k) /\ k \notin Named(cfg.StripRequestHeaders)
    THEN Inbound(t).Header[k]
    ELSE Values(cfg.CustomHeaders, k)

\* C19: when a header H is configured to be stripped and to be duplicated and
\* the inbound request carries a non-empty H, the dispatched request carries
\* no inbound value of H and no X-Original-H made by duplication: under both
\* names it holds only what the merges bring without H.
C19_StripBeforeDuplicate ==
    \A t \in Tasks :
        Len(calls[t].transport) = 1 =>
            \A i \in 1..Len(cfg.DuplicateRequestHeaders) :
                LET H == cfg.DuplicateRequestHeaders[i]
                    k == CanonicalMIMEHeaderKey(H)
                    x == CanonicalMIMEHeaderKey("X-Original-" \o H)
                IN  (k \in Named(cfg.StripRequestHeaders) /\ HeaderGet(Inbound(t).Header, H) # "") =>
                        /\ Values(Dispatched(t).Header, k) = Values(cfg.CustomHeaders, k)
                        /\ Values(Dispatched(t).Header, x) = PassedThrough(t, x)

\* Foo, stripped and duplicated, came in with two values and went out neither
\* as Foo nor as X-Original-Foo.
C19_Witness ==
    /\ Len(calls[1].transport) = 1
    /\ cfg.StripRequestHeaders = <<"foo">> /\ cfg.DuplicateRequestHeaders = <<"foo">>
    /\ Values(Inbound(1).Header, "Foo") = <<"v1", "v2">>
    /\ ~HeaderHas(Dispatched(1).Header, "Foo")
    /\ ~HeaderHas(Dispatched(1).Header, "X-Original-Foo")

DuplicatedAs(t) ==
    {CanonicalMIMEHeaderKey("X-Original-" \o cfg.DuplicateRequestHeaders[i]) :
        i \in {j \in 1..Len(cfg.DuplicateRequestHeaders) :
                  /\ CanonicalMIMEHeaderKey(cfg.DuplicateRequestHeaders[j])
                         \notin Named(cfg.StripRequestHeaders)
                  /\ HeaderGet(Inbound(t).Header, cfg.DuplicateRequestHeaders[j]) # ""}}

\* Whether a step before the merge of the custom headers (line 237) put the
\* key k on the outbound request of task t: the Signing Service, the
\* duplication, or the merge of the inbound headers that are not stripped.
SetEarlier(t, k) ==
    \/ k \in DOMAIN calls[t].signer[1].header
    \/ k \in DuplicatedAs(t)
    \/ (HeaderHas(Inbound(t).Header, k) /\ k \notin Named(cfg.StripRequestHeaders))

\* What the outbound request of task t holds under k when the custom headers
\* are left out of the configuration.
WithoutCustom(t, k) ==
    LET signed == calls[t].signer[1].header
    IN  IF k \in DOMAIN signed /\ k \notin DuplicatedAs(t) THEN signed[k]
        ELSE IF k \in DuplicatedAs(t)
             THEN <<HeaderGet(Inbound(t).Header,
                              CHOOSE N \in {cfg.DuplicateRequestHeaders[i] :
                                                i \in 1..Len(cfg.DuplicateRequestHeaders)} :
                                  CanonicalMIMEHeaderKey("X-Original-" \o N) = k)>>
             ELSE Inbound(t).Header[k]

\* C21: a configured custom header K is on the dispatched request with
\* exactly its configured values if and only if no earlier step (signing,
\* duplication, the merge of the inbound headers) put K there; when one did,
\* the values already under K go out unchanged and no custom value is added.
C21_CustomHeadersFillGaps ==
    \A t \in Tasks :
        Len(calls[t].transport) = 1 =>
            \A K \in DOMAIN cfg.CustomHeaders :
                Values(Dispatched(t).Header, K) =
                    IF SetEarlier(t, K) THEN WithoutCustom(t, K) ELSE cfg.CustomHeaders[K]

\* X-Custom went out with its two configured values, while the X-Original-Foo
\* of the client's own kept the custom one out.
C21_Witness ==
    /\ Len(calls[1].transport) = 1
    /\ cfg.CustomHeaders = Opt("X-Custom", <<"c1", "c2">>) @@ Opt("X-Original-Foo", <<"custom">>)
    /\ Values(Inbound(1).Header, "X-Original-Foo") = <<"old">>
    /\ ~HeaderHas(Inbound(1).Header, "X-Custom")
    /\ Values(Dispatched(1).Header, "X-Custom") = <<"c1", "c2">>
    /\ Values(Dispatched(1).Header, "X-Original-Foo") = <<"old">>

C23_OneOperationPerSigning ==
    \A t \in Tasks : pc[t] = "signReturn" => Len(calls[t].signer) = 1

\* C23: no request has more than one operation of the Signing Service invoked
\* for it; once through the signing step, a request resolved to the method
\* "v4" or "s3v4" has had Sign invoked, which on success sets the signature
\* headers and leaves the query alone; one resolved to "s3" has had Presign
\* invoked, which on success puts a validity of 3600 seconds and the signature
\* in the query and leaves the headers alone; one resolved to any other method
\* has had no operation invoked and its signing has failed.
C23_OperationByMethod ==
    \A t \in Tasks :
        /\ Len(calls[t].signer) <= 1
        /\ pc[t] = "signReturn" =>
            LET svc == Val(service[t])
                p == Val(proxyReq[t])
                ok == IsNil(signErr[t])
            IN  IF svc.SigningMethod \in {"v4", "s3v4"}
                THEN /\ Len(calls[t].signer) = 1 /\ calls[t].signer[1].op = "Sign"
                     /\ ok => /\ HeaderHas(p.Header, "Authorization")
                               /\ p.URL.RawQuery = Inbound(t).URL.RawQuery
                ELSE IF svc.SigningMethod = "s3"
                THEN /\ Len(calls[t].signer) = 1 /\ calls[t].signer[1].op = "Presign"
                     /\ ok => /\ p.Header = EmptyHeader
                               /\ Len(p.URL.RawQuery) > 18
                               /\ SubSeq(p.URL.RawQuery, 1, 18) = "X-Amz-Expires=3600"
                ELSE /\ calls[t].signer = <<>>
                     /\ signErr[t] = Some(UnsupportedMethodError(svc))

\* s3.amazonaws.com, resolved to the method "s3", was presigned and sent with
\* no signature header.
C23_Witness ==
    /\ Len(calls[1].transport) = 1
    /\ Inbound(1).Host = "s3.amazonaws.com"
    /\ Val(service[1]).SigningMethod = "s3"
    /\ Len(calls[1].signer) = 1 /\ calls[1].signer[1].op = "Presign"
    /\ ~HeaderHas(Dispatched(1).Header, "Authorization")
    /\ SubSeq(Dispatched(1).URL.RawQuery, 1, 18) = "X-Amz-Expires=3600"

\* C24: a request for the path "/health" is answered with the status 200 and
\* no body, and nothing of Do happens for it: no admission check, no read of
\* its body, no resolution, no signing, no call of the Transport.
C24_HealthBypassesPipeline ==
    \A t \in Tasks :
        (pc[t] # "idle" /\ Inbound(t).URL.Path = "/health") =>
            /\ calls[t].allow = <<>>
            /\ calls[t].resolver = <<>>
            /\ calls[t].signer = <<>>
            /\ calls[t].transport = <<>>
            /\ req[t] = Some(Inbound(t))
            /\ pc[t] = "done" => w[t].ops = <<WriteHeaderOp(200)>>

\* C25: the dispatched request goes to the host override when one is
\* configured and to the inbound Host otherwise, by the scheme override when
\* one is configured and by "https" otherwise.  When the name and region
\* overrides are not both set, the Resolver is asked about the inbound Host
\* and nothing else, whatever the host override: the endpoint signed for is
\* the inbound Host's, and a request whose inbound Host resolves to nothing
\* fails without reaching the Transport.
C25_TargetApartFromResolution ==
    \A t \in Tasks :
        /\ Len(calls[t].transport) = 1 =>
            /\ Dispatched(t).URL.Host =
                   IF cfg.HostOverride # "" THEN cfg.HostOverride ELSE Inbound(t).Host
            /\ Dispatched(t).URL.Scheme =
                   IF cfg.SchemeOverride # "" THEN cfg.SchemeOverride ELSE "https"
        /\ (~UseOverride /\ pc[t] \notin {"idle", "prepare"}) =>
            /\ calls[t].resolver = <<Inbound(t).Host>>
            /\ service[t] = determineAWSServiceFromHost(Inbound(t).Host)
            /\ (Returned(t) /\ IsNil(determineAWSServiceFromHost(Inbound(t).Host))) =>
                   /\ ret[t].err = Some("unable to determine service from host: " \o Inbound(t).Host)
                   /\ calls[t].transport = <<>>

\* A request for s3.amazonaws.com was sent to the host override by http, and
\* signed for s3 all the same.
C25_Witness ==
    /\ Len(calls[1].transport) = 1
    /\ ~UseOverride
    /\ cfg.HostOverride = "ec2.us-west-2.amazonaws.com" /\ cfg.SchemeOverride = "http"
    /\ Inbound(1).Host = "s3.amazonaws.com"
    /\ Dispatched(1).URL.Host = "ec2.us-west-2.amazonaws.com"
    /\ Dispatched(1).URL.Scheme = "http"
    /\ calls[1].signer[1].name = "s3"

\* C26: when a signing host override is configured, the outbound request
\* carries it as its Host from the moment it enters the signing step, every
\* call of the Signing Service is made for that Host, and the host of the
\* outbound URL stays the proxy target (the host override, or the inbound
\* Host) through signing and dispatch.
C26_SignedHostApartFromTarget ==
    cfg.SigningHostOverride # "" =>
        \A t \in Tasks :
            LET target == IF cfg.HostOverride # "" THEN cfg.HostOverride ELSE Inbound(t).Host
            IN  /\ pc[t] \in {"signEnter", "signCall", "signReturn", "dispatch"} =>
                    /\ Val(proxyReq[t]).Host = cfg.SigningHostOverride
                    /\ Val(proxyReq[t]).URL.Host = target
                /\ \A i \in 1..Len(calls[t].signer) :
                        calls[t].signer[i].host = cfg.SigningHostOverride
                /\ Len(calls[t].transport) = 1 =>
                    /\ Dispatched(t).Host = cfg.SigningHostOverride
                    /\ Dispatched(t).URL.Host = target

\* A request for the managed-search host was signed for sign.example.com and
\* sent to the host it came for.
C26_Witness ==
    /\ Len(calls[1].transport) = 1
    /\ cfg.SigningHostOverride = "sign.example.com" /\ cfg.HostOverride = ""
    /\ Inbound(1).Host = "test-abc.us-west-2.es.amazonaws.com"
    /\ calls[1].signer[1].host = "sign.example.com"
    /\ Dispatched(1).URL.Host = "test-abc.us-west-2.es.amazonaws.com"

\* C27: whenever the host looked up is a key of the table and also ends with
\* "." and another key, the entry returned is the one under the host itself,
\* on every call.
C27_ExactMatchWins ==
    \A t \in Tasks :
        (pc[t] = "done" /\ calls[t].resolver # <<>>) =>
            LET host == calls[t].resolver[1]
            IN  (/\ host \in DOMAIN cfg.services
                 /\ \E k \in DOMAIN cfg.services \ {host, ""} : HasSuffix(host, "." \o k)) =>
                    service[t] = Some(cfg.services[host])

\* C28 as stated: an entry is returned only for a key that is not empty and
\* that the host equals or ends with after a dot.
C28_OnlyNonEmptyKeys ==
    \A t \in Tasks :
        (pc[t] = "done" /\ calls[t].resolver # <<>> /\ ~IsNil(service[t])) =>
            LET host == calls[t].resolver[1]
            IN  \E k \in DOMAIN cfg.services \ {""} :
                    /\ host = k \/ HasSuffix(host, "." \o k)
                    /\ service[t] = Some(cfg.services[k])

\* C28: an entry is returned only for a key that the host equals, or that is
\* not empty and that the host ends with after a dot, and nil only when the
\* table has no such key: the empty key is matched by the empty host and by
\* no other, never as a suffix, and a host that only holds a key inside or
\* ends with it without the dot resolves to nothing.
C28_ExactOrDottedSuffix ==
    \A t \in Tasks :
        (pc[t] = "done" /\ calls[t].resolver # <<>>) =>
            LET host == calls[t].resolver[1]
                fits(k) == host = k \/ (k # "" /\ HasSuffix(host, "." \o k))
            IN  IF \E k \in DOMAIN cfg.services : fits(k)
                THEN \E k \in DOMAIN cfg.services : fits(k) /\ service[t] = Some(cfg.services[k])
                ELSE IsNil(service[t])

\* With the empty key in the table: example.org. and xs3.amazonaws.com
\* resolved to nothing, bucket.s3.amazonaws.com to the entry of its suffix.
C28_Witness ==
    /\ "" \in DOMAIN cfg.services
    /\ pc[1] = "done" /\ calls[1].resolver = <<"bucket.s3.amazonaws.com">>
    /\ service[1] = Some(cfg.services["s3.amazonaws.com"])
    /\ pc[2] = "done" /\ calls[2].resolver \in {<<"example.org.">>, <<"xs3.amazonaws.com">>}
    /\ IsNil(service[2])

\* C29: once ServeHTTP has written the status, the header map of the client's
\* writer is the one that went out with it and is never added to, on every
\* path; and when Do answered with a response, every value of every upstream
\* header went out with the status, in the upstream's order.
C29_HeadersBeforeStatus ==
    \A t \in Tasks :
        StatusWrites(w[t].ops) # {} =>
            /\ w[t].sent = Some(w[t].Header)
            /\ (IsNil(ret[t].err) /\ Len(calls[t].transport) = 1) =>
                   \A k \in DOMAIN Upstream(t).Header :
                       Values(Val(w[t].sent), k) = Upstream(t).Header[k]

\* A chunked response was streamed to its end, and its status had gone out
\* with both values of Set-Cookie.
C29_Witness ==
    /\ pc[1] = "done" /\ IsNil(ret[1].err)
    /\ Upstream(1).Header = RelayHeader
    /\ Streaming(1) /\ Len(w[1].ops) > 3
    /\ Values(Val(w[1].sent), "Set-Cookie") = <<"a=1", "b=2">>
    /\ w[1].Header = Val(w[1].sent)

\* The read that the streaming loop made last for the request of t: none
\* (<<>>) before the first.
LastRead(t) ==
    LET body == Val(ret[t].resp).Body
    IN  IF body.pos = 0 \/ body.pos > Len(body.reads) THEN Nil ELSE Some(body.reads[body.pos])

\* The streaming loop has read bytes together with an error that is not
\* io.EOF.
BytesWithError(t) ==
    /\ Streaming(t)
    /\ ~IsNil(LastRead(t))
    /\ Val(LastRead(t)).data # "" /\ Val(LastRead(t)).err \notin {"", "EOF"}

\* The last k operations on a writer.
LastOps(ops, k) == IF k > Len(ops) THEN <<>> ELSE SubSeq(ops, Len(ops) - k + 1, Len(ops))

\* What the loop does with bytes read beside an error when the client takes
\* them: their write, a flush when the writer can flush, the diagnostic.
BytesThenDiagnostic(t) ==
    <<WriteOp(Val(LastRead(t)).data, TRUE)>>
    \o (IF w[t].canFlush THEN <<FlushOp>> ELSE <<>>)
    \o <<WriteOp("error while streaming response from upstream - " \o Val(LastRead(t)).err, TRUE)>>

\* C30 as stated: whenever the loop has read bytes together with an error
\* other than io.EOF, the writer's last operations are the write of those
\* bytes, their flush and the write of the diagnostic, the status was written
\* once, and the loop has ended.
C30_BytesThenDiagnosticAlways ==
    \A t \in Tasks :
        BytesWithError(t) =>
            /\ pc[t] = "done"
            /\ StatusWrites(w[t].ops) = {1}
            /\ LastOps(w[t].ops, Len(BytesThenDiagnostic(t))) = BytesThenDiagnostic(t)

\* C30: whenever the loop has read bytes together with an error other than
\* io.EOF, it has ended with that read, with the status written once, at the
\* start; and either the client took the bytes, and the writer's last
\* operations are their write, a flush when the writer can flush, and the
\* write of "error while streaming response from upstream - <error>"; or the
\* client refused the bytes, and that failed write is the last operation,
\* with no diagnostic after it.
C30_BytesThenDiagnosticUnlessRefused ==
    \A t \in Tasks :
        BytesWithError(t) =>
            LET ops == w[t].ops
            IN  /\ pc[t] = "done"
                /\ StatusWrites(ops) = {1}
                /\ IF FailedWrites(ops) = {}
                   THEN LastOps(ops, Len(BytesThenDiagnostic(t))) = BytesThenDiagnostic(t)
                   ELSE /\ FailedWrites(ops) = {Len(ops)}
                        /\ ops[Len(ops)] = WriteOp(Val(LastRead(t)).data, FALSE)

\* "da" came with a reset of the connection and one more read behind it: it
\* was written and flushed, the diagnostic followed, and "ta" was never read.
C30_Witness ==
    /\ pc[1] = "done"
    /\ BytesWithError(1)
    /\ Val(ret[1].resp).Body.pos = 2 /\ Len(Val(ret[1].resp).Body.reads) = 3
    /\ w[1].ops = <<WriteHeaderOp(200), WriteOp("up", TRUE), FlushOp, WriteOp("da", TRUE), FlushOp,
                    WriteOp("error while streaming response from upstream - connection reset by peer",
                            TRUE)>>

\* The gate was built with a positive rate, so it holds a rate.Limiter.
PositiveGate == ~IsNil(cfg.RateLimiter) /\ Val(cfg.RateLimiter).rps > 0

\* The tokens the rate.Limiter of the gate holds.
Tokens == Val(Val(rateLimiter).limiter).tokens

\* The step is the Allow call that opens a request of the task t.
AllowStep(t) == pc[t] \in {"idle", "done"} /\ pc'[t] # pc[t]

\* C31: for a gate built with a positive rate and the burst b, under every
\* interleaving of the tasks: the tokens stay within 0..b; every admission
\* finds at least one token and spends exactly one, and every denial finds
\* none and spends none, so that between two refills no more than b calls are
\* admitted and with b = 0 none ever is; and a call that is denied has
\* returned, it does not wait for a token.
C31_AdmissionsSpendTokens ==
    /\ [](PositiveGate =>
            /\ Tokens \in 0..Val(cfg.RateLimiter).burst
            /\ \A t \in Tasks :
                   /\ calls[t].allow = <<FALSE>> => Returned(t)
                   /\ Val(cfg.RateLimiter).burst = 0 => calls[t].allow # <<TRUE>>)
    /\ [][PositiveGate =>
            \A t \in Tasks :
                AllowStep(t) =>
                    IF calls'[t].allow = <<TRUE>>
                    THEN Tokens >= 1 /\ Tokens' = Tokens - 1
                    ELSE calls'[t].allow = <<FALSE>> /\ Tokens = 0 /\ Tokens' = 0]_vars

\* Of two concurrent requests at a gate of burst 1, one was admitted and took
\* the only token, the other was denied.
C31_Witness ==
    /\ cfg.RateLimiter = Some([rps |-> 1, burst |-> 1])
    /\ calls[1].allow = <<TRUE>> /\ pc[1] = "prepare"
    /\ calls[2].allow = <<FALSE>> /\ Returned(2)
    /\ Tokens = 0

\* C32: when the process is started with a positive rate, the ProxyClient
\* that serves carries the RateLimiter built from the rate and the burst
\* given, and every request that has entered Do has been through its Allow.
C32_ServedThroughGate ==
    PositiveGate =>
        \A t \in Tasks :
            pc[t] \in {"prepare", "signEnter", "signCall", "signReturn", "dispatch",
                       "serve", "stream", "done"} =>
                /\ rateLimiter # Nil
                /\ calls[t].allow # <<>>

\* C33: the name and the region signed for are both the overrides', when both
\* overrides are set, or both the Resolver's for the inbound host; an
\* override set without the other changes neither.
C33_OverrideWholeOrNot ==
    \A t \in Tasks :
        \A i \in 1..Len(calls[t].signer) :
            LET call == calls[t].signer[i]
                found == determineAWSServiceFromHost(Inbound(t).Host)
            IN  IF cfg.SigningNameOverride # "" /\ cfg.RegionOverride # ""
                THEN call.name = cfg.SigningNameOverride /\ call.region = cfg.RegionOverride
                ELSE /\ ~IsNil(found)
                     /\ call.name = Val(found).SigningName
                     /\ call.region = Val(found).SigningRegion

\* With the name override "ec2" and no region override, a request for
\* s3.amazonaws.com was signed for s3 in us-east-1.
C33_Witness ==
    /\ cfg.SigningNameOverride = "ec2" /\ cfg.RegionOverride = ""
    /\ Len(calls[1].signer) = 1
    /\ Inbound(1).Host = "s3.amazonaws.com"
    /\ calls[1].signer[1].name = "s3" /\ calls[1].signer[1].region = "us-east-1"

\* C34: the header map of the inbound request is as it came in until the
\* request is dispatched, and so whenever Do fails before that; from the
\* dispatch on it is what came in less the headers configured to be stripped,
\* every other header with its values.
C34_InboundHeadersOnlyStripped ==
    \A t \in Tasks :
        pc[t] \notin {"idle", "exit"} =>
            LET came == Inbound(t).Header
                now == Val(req[t]).Header
            IN  IF calls[t].transport = <<>>
                THEN now = came
                ELSE now = [k \in DOMAIN came \ Named(cfg.StripRequestHeaders) |-> came[k]]

\* A request came in with Accept and User-Agent, Accept to be stripped, and
\* was dispatched: the caller's request holds User-Agent alone.
C34_Witness ==
    /\ Len(calls[1].transport) = 1
    /\ DOMAIN Inbound(1).Header = {"Accept", "User-Agent"}
    /\ Val(req[1]).Header = Header1("User-Agent", Inbound(1).Header["User-Agent"])

\* C35: the status is never written a second time and never after a write of
\* body bytes, so it is the first operation on the writer if it is there at
\* all; it is there while the body is streamed, and when ServeHTTP has ended,
\* by whichever path.
C35_StatusOnceAndFirst ==
    \A t \in Tasks :
        /\ StatusWrites(w[t].ops) \subseteq {1}
        /\ pc[t] \in {"stream", "done"} => StatusWrites(w[t].ops) = {1}

\* A stream broke off with a read error after bytes were written, and ended
\* with the one status at the start of six operations.
C35_Witness ==
    /\ pc[1] = "done"
    /\ BytesWithError(1)
    /\ Len(w[1].ops) = 6
    /\ StatusWrites(w[1].ops) = {1}

\* The body that the Transport returned for the request of t, as it is now:
\* the one set aside by the logging of a failed response, or else the one the
\* response still holds.
TransportBody(t) ==
    LET resp == Val(ret[t].resp)
    IN  IF ~IsNil(resp.orig) THEN Val(resp.orig) ELSE resp.Body

\* C36: when ServeHTTP has ended for a request that the Transport answered
\* with a response, the body the Transport returned has been closed exactly
\* once, also when the logging of a failed response put a copy in its place.
C36_TransportBodyClosedOnce ==
    \A t \in Tasks :
        (pc[t] = "done" /\ ~IsNil(ret[t].resp)) => TransportBody(t).closed = 1

\* How many reads of a body the loop may make: up to the first one that
\* comes with io.EOF or another error, or one past the last when none does.
ReadsUntilEnd(reads) ==
    IF \E i \in 1..Len(reads) : reads[i].err # ""
    THEN CHOOSE i \in 1..Len(reads) :
             reads[i].err # "" /\ \A j \in 1..(i - 1) : reads[j].err = ""
    ELSE Len(reads)

\* C37: a response that is being streamed is in the end done with, whatever
\* its reader returns before it signals the end of the stream or an error,
\* reads of no bytes with no error included, and whether or not the client
\* takes the writes; and the loop never reads past the read that came with
\* io.EOF or with an error.
C37_StreamingEnds ==
    /\ \A t \in Tasks : (pc[t] = "stream") ~> (pc[t] = "done")
    /\ [](\A t \in Tasks :
             Streaming(t) =>
                 Val(ret[t].resp).Body.pos <= ReadsUntilEnd(Val(ret[t].resp).Body.reads))

\* After two reads of nothing the third came with io.EOF: its byte was
\* written, the loop ended, and the fourth read was never made.
C37_Witness ==
    /\ pc[1] = "done"
    /\ Streaming(1)
    /\ Len(Val(ret[1].resp).Body.reads) = 4
    /\ Val(ret[1].resp).Body.pos = 3
    /\ BodyWritten(w[1].ops, Len(w[1].ops)) = "z"

\* ServeHTTP has ended for a response of known length that Do handed over as
\* the Transport returned it, and whose body breaks off with an error.
BufferedReadFailed(t) ==
    /\ Relayed(t)
    /\ Buffered(Upstream(t))
    /\ IsNil(Val(ret[t].resp).orig)
    /\ ReadAll(Upstream(t).Body).err # ""

\* C38: when the read of a buffered upstream body fails, the client gets the
\* status 500 and the body "error while reading response from upstream -
\* <error>" and nothing else, no byte of what was read before the error; and
\* the 500 goes out with every upstream header, Content-Length included.
C38_BufferedReadFailure ==
    \A t \in Tasks :
        BufferedReadFailed(t) =>
            /\ w[t].ops = <<WriteHeaderOp(500),
                            WriteOp("error while reading response from upstream - " \o
                                    ReadAll(Upstream(t).Body).err, TRUE)>>
            /\ ~IsNil(w[t].sent)
            /\ \A k \in DOMAIN Upstream(t).Header :
                   Values(Val(w[t].sent), k) = Upstream(t).Header[k]

\* A response announced three bytes and broke off after two: the client got
\* the 500 and the diagnostic under Content-Length: 3.
C38_Witness ==
    /\ pc[1] = "done"
    /\ BufferedReadFailed(1)
    /\ ReadAll(Upstream(1).Body).data = "ab"
    /\ w[1].ops[1] = WriteHeaderOp(500)
    /\ BodyWritten(w[1].ops, Len(w[1].ops)) =
           "error while reading response from upstream - unexpected EOF"
    /\ Values(Val(w[1].sent), "Content-Length") = <<"3">>

====
